---- MODULE Spec2Model ----
(***************************************************************************)
(* Model of the MacroKeyPad firmware (src/MacroKeyPad/MacroKeyPad.ino):    *)
(* the serial command interpreter, the LED controller, the start-up        *)
(* animation, the two key maps with their LED-behaviour maps, and the      *)
(* EEPROM record.                                                          *)
(*                                                                         *)
(* Characters are byte codes.  A C string is the sequence of its           *)
(* characters up to, not including, the first NUL.  The sketch is single   *)
(* threaded; the only points at which the outside world can be seen to     *)
(* act while the sketch is busy are its calls of delay(), so a step of the *)
(* model runs the sketch from one such point (or from the top of loop())   *)
(* to the next.                                                            *)
(***************************************************************************)
EXTENDS Integers, Sequences, FiniteSets, TLC

(***************************************************************************)
(* Bounds of the model.                                                    *)
(***************************************************************************)
\* keys 1..MaxKey are the ones a user presses
MaxKey == 1
\* the host sends a piece of a line only while the buffer holds fewer characters than this
MaxPart == 3

(***************************************************************************)
(* Program constants.                                                      *)
(***************************************************************************)
ROWS == 2
COLS == 4
KEYCOUNT == ROWS * COLS
\* sizeof(readBuffer)
BufSize == 80
\* the version tag written in front of the configuration
VersionTag == 2306
\* frames of the start-up animation hold this long
AnimDelay == 250
\* a flash caused by a key press holds this long
KeyFlashDelay == 150
\* KEY_F13 of Keyboard.h; F14.. follow it
KEY_F13 == 240
\* width of int and of char on the ATmega32U4
IntBits == 16
CharBits == 8

Pow2(n) == IF n = 8 THEN 256 ELSE 65536

\* a value stored in a (signed) char
ToChar(x) == ((x + Pow2(CharBits) \div 2) % Pow2(CharBits)) - Pow2(CharBits) \div 2
\* the cast (uint8_t) c
ToByte(c) == c % Pow2(CharBits)
\* a value stored in an int
ToInt(x) == ((x + Pow2(IntBits) \div 2) % Pow2(IntBits)) - Pow2(IntBits) \div 2

(***************************************************************************)
(* Character codes.                                                        *)
(***************************************************************************)
NUL == 0
LF == 10
CR == 13
SP == 32

Lower == <<"a","b","c","d","e","f","g","h","i","j","k","l","m",
           "n","o","p","q","r","s","t","u","v","w","x","y","z">>
Digits == <<"0","1","2","3","4","5","6","7","8","9">>

\* the code of a character written as a one-character string
Ord(c) ==
  IF \E i \in 1..26 : Lower[i] = c THEN 96 + (CHOOSE i \in 1..26 : Lower[i] = c)
  ELSE IF \E i \in 1..10 : Digits[i] = c THEN 47 + (CHOOSE i \in 1..10 : Digits[i] = c)
  ELSE IF c = " " THEN SP
  ELSE IF c = "?" THEN 63
  ELSE IF c = "-" THEN 45
  ELSE IF c = "A" THEN 65
  ELSE NUL

\* the character sequence of a tuple of one-character strings
Str(t) == [i \in 1..Len(t) |-> Ord(t[i])]

IsDigit(c) == c >= 48 /\ c <= 57

(***************************************************************************)
(* C library: strlen, strtok, atoi, strstr.                                *)
(***************************************************************************)
\* the C string held by an array whose written bytes are buf (a NUL follows them)
CStr(buf) ==
  IF \E i \in 1..Len(buf) : buf[i] = NUL
  THEN SubSeq(buf, 1, (CHOOSE i \in 1..Len(buf) : buf[i] = NUL /\ \A j \in 1..(i-1) : buf[j] # NUL) - 1)
  ELSE buf

strlen(buf) == Len(CStr(buf))

\* strtok's "no more tokens"
NULL == <<>>

\* the index of the first character of s from b on that is a space, Len(s) + 1 when there is none
TokEnd(s, b) ==
  IF \E i \in b..Len(s) : s[i] = SP
  THEN CHOOSE i \in b..Len(s) : s[i] = SP /\ \A j \in b..(i-1) : s[j] # SP
  ELSE Len(s) + 1

\* the token of s that starts at b and ends before e
TokCut(s, b, e) == [word |-> SubSeq(s, b, e - 1), save |-> SubSeq(s, e + 1, Len(s))]

\* the token of s that starts at b
TokFrom(s, b) == TokCut(s, b, TokEnd(s, b))

\* strtok(.., " ") on the string s its saved pointer points at:
\* the token (or NULL) and the string the saved pointer points at afterwards
StrTok(s) ==
  IF \A i \in 1..Len(s) : s[i] = SP
  THEN [word |-> NULL, save |-> <<>>]
  ELSE TokFrom(s, CHOOSE i \in 1..Len(s) : s[i] # SP /\ \A j \in 1..(i-1) : s[j] = SP)

\* the value of the leading decimal digits of s
RECURSIVE DigitsValue(_, _)
DigitsValue(s, acc) ==
  IF s = <<>> \/ ~IsDigit(Head(s)) THEN acc
  ELSE DigitsValue(Tail(s), 10 * acc + (Head(s) - 48))

\* what atoi does with a value that does not fit an int: avr-libc documents
\* the result as not predictable; its code keeps the low 16 bits ("wrap"),
\* a conversion through strtol would saturate ("sat")
AtoiOverflow == {"wrap", "sat"}

INT_MAX == Pow2(IntBits) \div 2 - 1
INT_MIN == 0 - Pow2(IntBits) \div 2

\* the int atoi gives for the mathematical value v
AtoiResult(v, ov) ==
  IF v >= INT_MIN /\ v <= INT_MAX THEN v
  ELSE IF ov = "wrap" THEN ToInt(v)
  ELSE IF v < 0 THEN INT_MIN ELSE INT_MAX

atoi(s, ov) ==
  IF s # <<>> /\ Head(s) = 45
  THEN AtoiResult(0 - DigitsValue(Tail(s), 0), ov)
  ELSE AtoiResult(DigitsValue(s, 0), ov)

\* strstr(hay, needle) # NULL
Contains(hay, needle) ==
  \E i \in 1..(Len(hay) - Len(needle) + 1) : SubSeq(hay, i, i + Len(needle) - 1) = needle

(***************************************************************************)
(* Configuration data and its defaults.                                    *)
(***************************************************************************)
Keys == 1..KEYCOUNT

ConfigData ==
  [keyMap1 |-> [i \in Keys |-> ToChar(IF i <= 6 THEN KEY_F13 + i - 1 ELSE KEY_F13 + i + 1)],
   keyMap2 |-> [i \in Keys |-> 48 + i],
   ledConfig1 |-> [i \in Keys |-> Ord("t")],
   ledConfig2 |-> [i \in Keys |-> Ord("t")]]

\* the pairs lit by the frames of the start-up animation
ledAnimation == <<<<1, 8>>, <<2, 7>>, <<3, 6>>, <<4, 5>>, <<8, 1>>, <<7, 2>>, <<6, 3>>, <<5, 4>>, <<1, 8>>>>

AllOff == [i \in Keys |-> 0]

(***************************************************************************)
(* The handler table.                                                      *)
(***************************************************************************)
handlers ==
  << [name |-> "help",         shortcode |-> Str(<<"?">>), command |-> Str(<<"h","e","l","p">>)],
     [name |-> "version",      shortcode |-> Str(<<"v">>), command |-> Str(<<"v","e","r","s","i","o","n">>)],
     [name |-> "getled",       shortcode |-> Str(<<"g">>), command |-> Str(<<"g","e","t","l","e","d">>)],
     [name |-> "toggle",       shortcode |-> Str(<<"t">>), command |-> Str(<<"t","o","g","g","l","e">>)],
     [name |-> "on",           shortcode |-> Str(<<"e">>), command |-> Str(<<"o","n">>)],
     [name |-> "off",          shortcode |-> Str(<<"d">>), command |-> Str(<<"o","f","f">>)],
     [name |-> "flash",        shortcode |-> Str(<<"f">>), command |-> Str(<<"f","l","a","s","h">>)],
     [name |-> "animation",    shortcode |-> Str(<<"a">>), command |-> Str(<<"a","n","i","m","a","t","i","o","n">>)],
     [name |-> "usemap",       shortcode |-> Str(<<"u">>), command |-> Str(<<"u","s","e","m","a","p">>)],
     [name |-> "configtoggle", shortcode |-> Str(<<"c">>), command |-> Str(<<"c","o","n","f","i","g","t","o","g","g","l","e">>)],
     [name |-> "showsettings", shortcode |-> Str(<<"s">>), command |-> Str(<<"s","h","o","w","s","e","t","t","i","n","g","s">>)],
     [name |-> "setkeycode",   shortcode |-> Str(<<"k">>), command |-> Str(<<"s","e","t","k","e","y","c","o","d","e">>)],
     [name |-> "setkeychar",   shortcode |-> Str(<<"h">>), command |-> Str(<<"s","e","t","k","e","y","c","h","a","r">>)],
     [name |-> "persist",      shortcode |-> Str(<<"p">>), command |-> Str(<<"p","e","r","s","i","s","t">>)],
     [name |-> "load",         shortcode |-> Str(<<"l">>), command |-> Str(<<"l","o","a","d">>)] >>

(***************************************************************************)
(* The state of the sketch.                                                *)
(***************************************************************************)
VARIABLES
  config,              \* struct ConfigData config
  useAlternateKeyMap,  \* boolean useAlternateKeyMap
  ledState,            \* byte ledState[KEYCOUNT]
  readBuffer,          \* the bytes written to readBuffer since it was cleared (readBufferPtr - readBuffer of them)
  strtokSave,          \* the string strtok's saved pointer points at
  currentLedState,     \* static byte currentLedState[] of startupLedAnimation
  eeprom,              \* the first bytes of the EEPROM
  pc,                  \* where the sketch is: "boot", "loop", "flash1", "flash2", "anim", "corrupt"
  ret,                 \* who called the blocking operation in progress: "setup", "cmd", "key", or "-"
  flashNr,             \* the LED (zero based) of the flash in progress
  animFrame,           \* the frame (zero based) of the animation in progress
  delayMs,             \* the argument of the delay() in progress, 0 when there is none
  rx,                  \* bytes received by the serial port and not yet read
  out,                 \* what the latest activity (boot, command line) has printed to Serial
  kbd,                 \* what the latest key press has sent through Keyboard.write
  calls,               \* history: the handlers the command line in execution has called, with their results
  pre,                 \* history: the state in which the command line in execution found the sketch
  persisted            \* history: the configuration as it was when handlePersist last ran

vars == <<config, useAlternateKeyMap, ledState, readBuffer, strtokSave, currentLedState,
          eeprom, pc, ret, flashNr, animFrame, delayMs, rx, out, kbd, calls, pre, persisted>>

\* the state of the sketch as one record, for the operators that model its functions
M == [config |-> config, useAlternateKeyMap |-> useAlternateKeyMap, ledState |-> ledState,
      readBuffer |-> readBuffer, strtokSave |-> strtokSave, currentLedState |-> currentLedState,
      eeprom |-> eeprom, pc |-> pc, ret |-> ret, flashNr |-> flashNr, animFrame |-> animFrame,
      delayMs |-> delayMs, out |-> out, kbd |-> kbd, calls |-> calls, pre |-> pre,
      persisted |-> persisted]

Becomes(m) ==
  /\ config' = m.config
  /\ useAlternateKeyMap' = m.useAlternateKeyMap
  /\ ledState' = m.ledState
  /\ readBuffer' = m.readBuffer
  /\ strtokSave' = m.strtokSave
  /\ currentLedState' = m.currentLedState
  /\ eeprom' = m.eeprom
  /\ pc' = m.pc
  /\ ret' = m.ret
  /\ flashNr' = m.flashNr
  /\ animFrame' = m.animFrame
  /\ delayMs' = m.delayMs
  /\ out' = m.out
  /\ kbd' = m.kbd
  /\ calls' = m.calls
  /\ pre' = m.pre
  /\ persisted' = m.persisted

\* values of the history variables when they hold nothing
NoPre == [line |-> <<>>, config |-> ConfigData, ledState |-> AllOff,
          useAlternateKeyMap |-> FALSE, eeprom |-> <<>>, printed |-> 0, valid |-> FALSE]
NoPersist == [valid |-> FALSE, config |-> ConfigData]

(***************************************************************************)
(* Serial output.                                                          *)
(***************************************************************************)
Msg(text) == [text |-> text, args |-> <<>>]
MsgArgs(text, args) == [text |-> text, args |-> args]

Say(m, msg) == [m EXCEPT !.out = Append(@, msg)]

MSG_MISSING == Msg("Error, missing number")
MSG_RANGE(lo, hi) == MsgArgs("Error, expected number from", <<lo, hi>>)
MSG_UNKNOWN == Msg("Unknown Command Error")
MSG_SETTING == Msg("Expected setting flag, one of [t,e,d,f].")
MSG_SINGLE == Msg("Expected single character.")
MSG_PERSISTED == Msg("Config persisted.")
MSG_LOADED == Msg("Config loaded.")

IsErrorMsg(msg) ==
  msg.text \in {"Error, missing number", "Error, expected number from", "Unknown Command Error",
                "Expected setting flag, one of [t,e,d,f].", "Expected single character."}

(***************************************************************************)
(* The LED controller.                                                     *)
(***************************************************************************)
\* a slip: the buffer keeps the line it held
clearReadBufferKeeps(m) == m

clearReadBuffer(m) == [m EXCEPT !.readBuffer = <<>>]

\* setLed(nr, onOff), nr zero based
setLed(m, nr, onOff) ==
  IF nr < 0 \/ nr >= KEYCOUNT \/ onOff < 0 \/ onOff > 1 THEN m
  ELSE [m EXCEPT !.ledState[nr + 1] = onOff]

\* a slip: the LED is lit whatever its state
toggleLedLights(m, nr) == IF nr < 0 \/ nr >= KEYCOUNT THEN m ELSE setLed(m, nr, 1)

toggleLed(m, nr) ==
  IF nr < 0 \/ nr >= KEYCOUNT THEN m
  ELSE IF m.ledState[nr + 1] = 0 THEN setLed(m, nr, 1) ELSE setLed(m, nr, 0)

\* a call of delay(ms) made on behalf of caller r: the sketch waits at position p
Delay(m, p, r, ms) == [m EXCEPT !.pc = p, !.ret = r, !.delayMs = ms]

\* setLed for both LEDs of an animation frame
setPair(m, pair, onOff) == setLed(setLed(m, pair[1] - 1, onOff), pair[2] - 1, onOff)

\* startupLedAnimation up to its first delay
startupLedAnimation(m, r) ==
  Delay(setPair([m EXCEPT !.currentLedState = m.ledState, !.animFrame = 0], ledAnimation[1], 1),
        "anim", r, AnimDelay)

\* the calls of setLed the frame loop makes for frame i (zero based), i > 0, in order
FrameCalls(i) ==
  << [nr |-> ledAnimation[i + 1][1] - 1, onOff |-> 1], [nr |-> ledAnimation[i + 1][2] - 1, onOff |-> 1],
     [nr |-> ledAnimation[i][1] - 1, onOff |-> 0], [nr |-> ledAnimation[i][2] - 1, onOff |-> 0] >>

\* the calls of setLed cs made one after the other
RECURSIVE SetLeds(_, _)
SetLeds(m, cs) == IF cs = <<>> THEN m ELSE SetLeds(setLed(m, Head(cs).nr, Head(cs).onOff), Tail(cs))

\* the body of the frame loop for frame i (zero based), i > 0
AnimFrameBody(m, i) == [SetLeds(m, FrameCalls(i)) EXCEPT !.animFrame = i]

\* a slip: the LEDs are not put back, all are left off
RestoreLedsOff(m, i) == [m EXCEPT !.ledState = AllOff]

RECURSIVE RestoreLeds(_, _)
RestoreLeds(m, i) ==
  IF i >= KEYCOUNT THEN m ELSE RestoreLeds(setLed(m, i, m.currentLedState[i + 1]), i + 1)

\* the end of startupLedAnimation, after the delay of the last frame
\* (the snapshot is dead once restored: the model forgets it)
AnimEnd(m) ==
  [RestoreLeds(setPair(m, ledAnimation[Len(ledAnimation)], 0), 0)
     EXCEPT !.currentLedState = AllOff, !.animFrame = 0, !.delayMs = 0]

(***************************************************************************)
(* The EEPROM record: an int (little endian), then the bytes of config.    *)
(***************************************************************************)
IntSize == IntBits \div CharBits
ConfigSize == 4 * KEYCOUNT
RecordSize == IntSize + ConfigSize

\* the bytes EEPROM.put writes for an int
IntBytes(v) == <<(v % Pow2(IntBits)) % Pow2(CharBits), (v % Pow2(IntBits)) \div Pow2(CharBits)>>
\* the int EEPROM.get reads from two bytes
IntOfBytes(b) == ToInt(b[1] + Pow2(CharBits) * b[2])

\* the bytes EEPROM.put writes for a struct ConfigData
ConfigBytes(c) ==
  [i \in 1..ConfigSize |->
     ToByte(IF i <= KEYCOUNT THEN c.keyMap1[i]
            ELSE IF i <= 2 * KEYCOUNT THEN c.keyMap2[i - KEYCOUNT]
            ELSE IF i <= 3 * KEYCOUNT THEN c.ledConfig1[i - 2 * KEYCOUNT]
            ELSE c.ledConfig2[i - 3 * KEYCOUNT])]

\* a slip: the bytes are read as unsigned
ConfigOfBytesUnsigned(b) ==
  [keyMap1 |-> [i \in Keys |-> b[i]],
   keyMap2 |-> [i \in Keys |-> b[KEYCOUNT + i]],
   ledConfig1 |-> [i \in Keys |-> b[2 * KEYCOUNT + i]],
   ledConfig2 |-> [i \in Keys |-> b[3 * KEYCOUNT + i]]]

\* the struct ConfigData EEPROM.get reads from its bytes
ConfigOfBytes(b) ==
  [keyMap1 |-> [i \in Keys |-> ToChar(b[i])],
   keyMap2 |-> [i \in Keys |-> ToChar(b[KEYCOUNT + i])],
   ledConfig1 |-> [i \in Keys |-> ToChar(b[2 * KEYCOUNT + i])],
   ledConfig2 |-> [i \in Keys |-> ToChar(b[3 * KEYCOUNT + i])]]

\* an EEPROM never written: every byte 0xFF
ErasedEeprom == [i \in 1..RecordSize |-> 255]
\* an EEPROM left behind by a sketch with another record layout
StaleEeprom == IntBytes(VersionTag - 1) \o [i \in 1..ConfigSize |-> 0]

(***************************************************************************)
(* The command handlers.  Each gives the state it leaves and its result.   *)
(***************************************************************************)
Ret(m, rc) == [m |-> m, rc |-> rc]

\* strtok(NULL, " ") has given t: the state with the saved pointer moved on
Took(m, t) == [m EXCEPT !.strtokSave = t.save]

\* parseNumber after atoi has given nr
CheckRange(nr, m, minValue, maxValue) ==
  IF nr < minValue \/ nr > maxValue
  THEN [m |-> Say(m, MSG_RANGE(minValue, maxValue)), nr |-> -1]
  ELSE [m |-> m, nr |-> nr]

\* parseNumber after strtok has given t
ParseWord(t, m, minValue, maxValue, ov) ==
  IF t.word = NULL THEN [m |-> Say(Took(m, t), MSG_MISSING), nr |-> -1]
  ELSE CheckRange(atoi(t.word, ov), Took(m, t), minValue, maxValue)

\* parseNumber: the state it leaves and the number (-1 on error)
parseNumber(m, minValue, maxValue, ov) ==
  ParseWord(StrTok(m.strtokSave), m, minValue, maxValue, ov)

RECURSIVE SayHelp(_, _)
SayHelp(m, i) ==
  IF i > Len(handlers) THEN m ELSE SayHelp(Say(m, MsgArgs("help of", <<i>>)), i + 1)

handleHelp(m) ==
  Ret(Say(SayHelp(Say(m, Msg("Valid commands:")), 1), Msg("You can put multiple commands in one line")), 0)

handleVersion(m) == Ret(Say(m, Msg("MacroPad-1.0")), 0)

\* handleGetLed after parseNumber has given p
GetLedOf(p) ==
  IF p.nr = -1 THEN Ret(p.m, 1)
  ELSE Ret(Say(p.m, MsgArgs("led state", <<p.m.ledState[p.nr]>>)), 0)

handleGetLed(m, ov) == GetLedOf(parseNumber(m, 1, KEYCOUNT, ov))

\* handleToggle after parseNumber has given p
ToggleOf(p) == IF p.nr = -1 THEN Ret(p.m, 1) ELSE Ret(toggleLed(p.m, p.nr - 1), 0)

handleToggle(m, ov) == ToggleOf(parseNumber(m, 1, KEYCOUNT, ov))

\* handleOn after parseNumber has given p
OnOf(p) == IF p.nr = -1 THEN Ret(p.m, 1) ELSE Ret(setLed(p.m, p.nr - 1, 1), 0)

handleOn(m, ov) == OnOf(parseNumber(m, 1, KEYCOUNT, ov))

\* handleOff after parseNumber has given p
OffOf(p) == IF p.nr = -1 THEN Ret(p.m, 1) ELSE Ret(setLed(p.m, p.nr - 1, 0), 0)

handleOff(m, ov) == OffOf(parseNumber(m, 1, KEYCOUNT, ov))

\* a slip: the flash starts with a toggle of the LED
FlashMsToggles(nr, q) ==
  IF q.nr = -1 THEN Ret(q.m, 1)
  ELSE Ret(Delay([toggleLed(q.m, nr - 1) EXCEPT !.flashNr = nr - 1], "flash1", "cmd", q.nr), 0)

\* handleFlash after the second parseNumber has given q: up to its first delay
FlashMs(nr, q) ==
  IF q.nr = -1 THEN Ret(q.m, 1)
  ELSE Ret(Delay([setLed(q.m, nr - 1, 1) EXCEPT !.flashNr = nr - 1], "flash1", "cmd", q.nr), 0)

\* handleFlash after the first parseNumber has given p
FlashNr(p, ov) ==
  IF p.nr = -1 THEN Ret(p.m, 1) ELSE FlashMs(p.nr, parseNumber(p.m, 10, 500, ov))

handleFlash(m, ov) == FlashNr(parseNumber(m, 1, KEYCOUNT, ov), ov)

\* handleAnimation up to the first delay of the animation
handleAnimation(m) == Ret(startupLedAnimation(m, "cmd"), 0)

\* a slip: the selector is set without a look at what parseNumber gave
ActivateOfUnchecked(p) ==
  Ret([p.m EXCEPT !.useAlternateKeyMap = (p.nr = 2)], IF p.nr = -1 THEN 1 ELSE 0)

\* handleActivateKeyMap after parseNumber has given p
ActivateOf(p) ==
  IF p.nr = -1 THEN Ret(p.m, 1) ELSE Ret([p.m EXCEPT !.useAlternateKeyMap = (p.nr = 2)], 0)

\* a slip: switching maps puts the LEDs out
handleActivateKeyMapLedsOff(m, ov) ==
  [ActivateOf(parseNumber(m, 1, 2, ov)) EXCEPT !.m.ledState = AllOff]

handleActivateKeyMap(m, ov) == ActivateOf(parseNumber(m, 1, 2, ov))

\* a slip: the length of the setting is not looked at
ConfigToggleSettingAnyLength(nr, setting, m) ==
  IF setting = NULL \/ ~Contains(Str(<<"t","e","d","f">>), setting)
  THEN Ret(Say(m, MSG_SETTING), 1)
  ELSE IF m.useAlternateKeyMap
       THEN Ret([m EXCEPT !.config.ledConfig2[nr] = setting[1]], 0)
       ELSE Ret([m EXCEPT !.config.ledConfig1[nr] = setting[1]], 0)

\* handleConfigToggle after strtok has given the setting
ConfigToggleSetting(nr, setting, m) ==
  IF setting = NULL \/ ~Contains(Str(<<"t","e","d","f">>), setting) \/ Len(setting) # 1
  THEN Ret(Say(m, MSG_SETTING), 1)
  ELSE IF m.useAlternateKeyMap
       THEN Ret([m EXCEPT !.config.ledConfig2[nr] = setting[1]], 0)
       ELSE Ret([m EXCEPT !.config.ledConfig1[nr] = setting[1]], 0)

\* handleConfigToggle after strtok has given t
ConfigToggleTok(nr, t, m) == ConfigToggleSetting(nr, t.word, Took(m, t))

\* handleConfigToggle after parseNumber has given p
ConfigToggleOf(p) ==
  IF p.nr = -1 THEN Ret(p.m, 1) ELSE ConfigToggleTok(p.nr, StrTok(p.m.strtokSave), p.m)

handleConfigToggle(m, ov) == ConfigToggleOf(parseNumber(m, 1, KEYCOUNT, ov))

\* the line handleShowSettings prints for key i (zero based)
\* a slip: the key code is printed as the signed char it is stored in
SettingsLineSigned(m, i) ==
  MsgArgs("key, led, ledconfig, keycode",
          IF m.useAlternateKeyMap
          THEN <<i + 1, m.ledState[i + 1], m.config.ledConfig2[i + 1], m.config.keyMap2[i + 1]>>
          ELSE <<i + 1, m.ledState[i + 1], m.config.ledConfig1[i + 1], m.config.keyMap1[i + 1]>>)

SettingsLine(m, i) ==
  MsgArgs("key, led, ledconfig, keycode",
          IF m.useAlternateKeyMap
          THEN <<i + 1, m.ledState[i + 1], m.config.ledConfig2[i + 1], ToByte(m.config.keyMap2[i + 1])>>
          ELSE <<i + 1, m.ledState[i + 1], m.config.ledConfig1[i + 1], ToByte(m.config.keyMap1[i + 1])>>)

RECURSIVE SaySettings(_, _)
SaySettings(m, i) ==
  IF i >= KEYCOUNT THEN m ELSE SaySettings(Say(m, SettingsLine(m, i)), i + 1)

handleShowSettings(m) ==
  Ret(SaySettings(Say(m, Msg(IF m.useAlternateKeyMap THEN "map 2 active" ELSE "map 1 active")), 0), 0)

\* handleSetKeyCode after the second parseNumber has given q
\* a slip: the code always goes to the primary map
SetKeyCodeCodePrimary(nr, q) ==
  IF q.nr = -1 THEN Ret(q.m, 1)
  ELSE Ret([q.m EXCEPT !.config.keyMap1[nr] = ToChar(q.nr % 256)], 0)

SetKeyCodeCode(nr, q) ==
  IF q.nr = -1 THEN Ret(q.m, 1)
  ELSE IF q.m.useAlternateKeyMap
       THEN Ret([q.m EXCEPT !.config.keyMap2[nr] = ToChar(q.nr % 256)], 0)
       ELSE Ret([q.m EXCEPT !.config.keyMap1[nr] = ToChar(q.nr % 256)], 0)

\* handleSetKeyCode after the first parseNumber has given p
SetKeyCodeNr(p, ov) ==
  IF p.nr = -1 THEN Ret(p.m, 1) ELSE SetKeyCodeCode(p.nr, parseNumber(p.m, 0, 255, ov))

handleSetKeyCode(m, ov) == SetKeyCodeNr(parseNumber(m, 1, KEYCOUNT, ov), ov)

\* a slip: the character is written to the EEPROM record as well
SetKeyCharValueSaved(nr, value, m) ==
  IF value = NULL \/ Len(value) # 1
  THEN Ret(Say(m, MSG_SINGLE), 1)
  ELSE IF m.useAlternateKeyMap
       THEN Ret([m EXCEPT !.config.keyMap2[nr] = value[1],
                          !.eeprom[IntSize + KEYCOUNT + nr] = ToByte(value[1])], 0)
       ELSE Ret([m EXCEPT !.config.keyMap1[nr] = value[1],
                          !.eeprom[IntSize + nr] = ToByte(value[1])], 0)

\* handleSetKeyChar after strtok has given the value
SetKeyCharValue(nr, value, m) ==
  IF value = NULL \/ Len(value) # 1
  THEN Ret(Say(m, MSG_SINGLE), 1)
  ELSE IF m.useAlternateKeyMap
       THEN Ret([m EXCEPT !.config.keyMap2[nr] = value[1]], 0)
       ELSE Ret([m EXCEPT !.config.keyMap1[nr] = value[1]], 0)

\* handleSetKeyChar after strtok has given t
SetKeyCharTok(nr, t, m) == SetKeyCharValue(nr, t.word, Took(m, t))

\* handleSetKeyChar after parseNumber has given p
SetKeyCharOf(p) ==
  IF p.nr = -1 THEN Ret(p.m, 1) ELSE SetKeyCharTok(p.nr, StrTok(p.m.strtokSave), p.m)

handleSetKeyChar(m, ov) == SetKeyCharOf(parseNumber(m, 1, KEYCOUNT, ov))

handlePersist(m) ==
  Ret(Say([m EXCEPT !.eeprom = IntBytes(VersionTag) \o ConfigBytes(m.config),
                    !.persisted = [valid |-> TRUE, config |-> m.config]],
          MSG_PERSISTED), 0)

\* a slip: without a matching tag the defaults are put back
handleLoadDefaults(m) ==
  IF IntOfBytes(SubSeq(m.eeprom, 1, IntSize)) = VersionTag
  THEN Ret(Say([m EXCEPT !.config = ConfigOfBytes(SubSeq(m.eeprom, IntSize + 1, RecordSize))], MSG_LOADED), 0)
  ELSE Ret([m EXCEPT !.config = ConfigData], 0)

\* a slip: the record is found but not read
handleLoadReadsNothing(m) ==
  IF IntOfBytes(SubSeq(m.eeprom, 1, IntSize)) = VersionTag
  THEN Ret(Say(m, MSG_LOADED), 0)
  ELSE Ret(m, 0)

handleLoad(m) ==
  IF IntOfBytes(SubSeq(m.eeprom, 1, IntSize)) = VersionTag
  THEN Ret(Say([m EXCEPT !.config = ConfigOfBytes(SubSeq(m.eeprom, IntSize + 1, RecordSize))], MSG_LOADED), 0)
  ELSE Ret(m, 0)

(***************************************************************************)
(* executeSerialCommands.                                                  *)
(***************************************************************************)
\* the test of the for loop: handlers[i] is the entry word names
Matches(i, word) == handlers[i].command = word \/ handlers[i].shortcode = word

\* the index in handlers of the first entry word names, 0 when there is none
Lookup(word) ==
  IF \E i \in 1..Len(handlers) : Matches(i, word)
  THEN CHOOSE i \in 1..Len(handlers) : Matches(i, word) /\ \A j \in 1..(i - 1) : ~Matches(j, word)
  ELSE 0

\* the handler function of the entry called n
CallNamed(n, m, ov) ==
  CASE n = "help" -> handleHelp(m)
    [] n = "version" -> handleVersion(m)
    [] n = "getled" -> handleGetLed(m, ov)
    [] n = "toggle" -> handleToggle(m, ov)
    [] n = "on" -> handleOn(m, ov)
    [] n = "off" -> handleOff(m, ov)
    [] n = "flash" -> handleFlash(m, ov)
    [] n = "animation" -> handleAnimation(m)
    [] n = "usemap" -> handleActivateKeyMap(m, ov)
    [] n = "configtoggle" -> handleConfigToggle(m, ov)
    [] n = "showsettings" -> handleShowSettings(m)
    [] n = "setkeycode" -> handleSetKeyCode(m, ov)
    [] n = "setkeychar" -> handleSetKeyChar(m, ov)
    [] n = "persist" -> handlePersist(m)
    [] n = "load" -> handleLoad(m)

\* handlers[i].handler()
Call(i, m, ov) == CallNamed(handlers[i].name, m, ov)

\* the return of executeSerialCommands into handleSerialReceive, which clears
\* the buffer (strtok's saved pointer is dead from here on: the model forgets it)
LineDone(m) ==
  [clearReadBuffer(m) EXCEPT !.pc = "loop", !.ret = "-", !.delayMs = 0, !.strtokSave = <<>>]

\* history: handlers[i].handler() has returned rc
Called(m, i, rc) == [m EXCEPT !.calls = Append(@, [name |-> handlers[i].name, rc |-> rc])]

RECURSIVE NextWord(_, _)

\* a slip: the loop is left after the first handler, whatever it returned
AfterHandlerLeavesLoop(m, i, rc, ov) == LineDone(Called(m, i, rc))

\* the loop body after handlers[i].handler() has returned rc
AfterHandler(m, i, rc, ov) ==
  IF rc # 0 THEN LineDone(Called(m, i, rc)) ELSE NextWord(Called(m, i, rc), ov)

\* the loop body after handlers[i].handler() has given r, or waits in a delay
Returned(r, i, ov) ==
  IF r.m.pc # "loop" THEN r.m ELSE AfterHandler(r.m, i, r.rc, ov)

\* a slip: an unknown word is reported and the loop goes on with the next word
DispatchSkipsUnknown(i, m, ov) ==
  IF i = 0 THEN NextWord(Say(m, MSG_UNKNOWN), ov) ELSE Returned(Call(i, m, ov), i, ov)

\* the loop body after the for loop has found entry i (0: none) for the word
Dispatch(i, m, ov) ==
  IF i = 0 THEN LineDone(Say(m, MSG_UNKNOWN)) ELSE Returned(Call(i, m, ov), i, ov)

\* the while loop with the word strtok has given
WhileWord(t, m, ov) ==
  IF t.word = NULL THEN LineDone(Took(m, t)) ELSE Dispatch(Lookup(t.word), Took(m, t), ov)

\* the while loop, from the strtok that fetches the next word
NextWord(m, ov) == WhileWord(StrTok(m.strtokSave), m, ov)

HandlerIndex(n) == CHOOSE i \in 1..Len(handlers) : handlers[i].name = n

\* history: the state a command line finds
Snapshot(m) ==
  [line |-> CStr(m.readBuffer), config |-> m.config, ledState |-> m.ledState,
   useAlternateKeyMap |-> m.useAlternateKeyMap, eeprom |-> m.eeprom,
   printed |-> Len(m.out), valid |-> TRUE]

\* a slip: a line without any word is reported as an unknown command
executeSerialCommandsNoWord(m, ov) ==
  IF StrTok(CStr(m.readBuffer)).word = NULL
  THEN LineDone(Say([m EXCEPT !.calls = <<>>, !.pre = Snapshot(m)], MSG_UNKNOWN))
  ELSE NextWord([m EXCEPT !.strtokSave = CStr(m.readBuffer), !.calls = <<>>, !.pre = Snapshot(m)], ov)

executeSerialCommands(m, ov) ==
  NextWord([m EXCEPT !.strtokSave = CStr(m.readBuffer), !.calls = <<>>, !.pre = Snapshot(m)], ov)

\* a slip: the buffer is taken to be full one character early
StoreByteShort(m, ser) ==
  IF strlen(m.readBuffer) < BufSize - 2 /\ ser # CR /\ ser # LF
  THEN [m EXCEPT !.readBuffer = Append(@, ser)]
  ELSE m

\* handleSerialReceive storing ser: the write of the NUL after the last slot
\* of the array corrupts memory
StoreByte(m, ser) ==
  IF strlen(m.readBuffer) < BufSize - 1 /\ ser # CR /\ ser # LF
  THEN IF Len(m.readBuffer) + 1 > BufSize - 1
       THEN [m EXCEPT !.pc = "corrupt"]
       ELSE [m EXCEPT !.readBuffer = Append(@, ser)]
  ELSE m

\* a slip: only a line feed ends a line
EnterPressedOnlyLF(m, ser, ov) ==
  IF m.pc # "corrupt" /\ ser = LF /\ strlen(m.readBuffer) > 0
  THEN executeSerialCommands(m, ov)
  ELSE m

\* handleSerialReceive after it has stored, or not, the character ser
EnterPressed(m, ser, ov) ==
  IF m.pc # "corrupt" /\ (ser = CR \/ ser = LF) /\ strlen(m.readBuffer) > 0
  THEN executeSerialCommands(m, ov)
  ELSE m

\* the body of the while loop of handleSerialReceive for the byte b
handleSerialReceive(m, b, ov) == EnterPressed(StoreByte(m, ToChar(b)), ToChar(b), ov)

(***************************************************************************)
(* Key presses.                                                            *)
(***************************************************************************)
\* executeLedConfig with the setting of the key: up to its first delay, if it has one
ApplySetting(setting, m, nr) ==
  IF setting = Ord("t") THEN toggleLed(m, nr)
  ELSE IF setting = Ord("e") THEN setLed(m, nr, 1)
  ELSE IF setting = Ord("d") THEN setLed(m, nr, 0)
  ELSE IF setting = Ord("f")
       THEN Delay([setLed(m, nr, 1) EXCEPT !.flashNr = nr], "flash1", "key", KeyFlashDelay)
       ELSE m

executeLedConfig(m, nr) ==
  IF nr < 0 \/ nr >= KEYCOUNT THEN m
  ELSE ApplySetting(IF m.useAlternateKeyMap THEN m.config.ledConfig2[nr + 1]
                    ELSE m.config.ledConfig1[nr + 1], m, nr)

\* Keyboard.write(c): the byte sent (the host has read what was printed before)
KeyboardWrite(m, c) == [m EXCEPT !.kbd = <<ToByte(c)>>, !.out = <<>>, !.calls = <<>>, !.pre = NoPre]

\* a slip: the code is always taken from the primary map
KeyPressedPrimary(m, key) == executeLedConfig(KeyboardWrite(m, m.config.keyMap1[key]), key - 1)

\* the body of loop() after handleSerialReceive, for the key the keypad reports
KeyPressed(m, key) ==
  executeLedConfig(KeyboardWrite(m, IF m.useAlternateKeyMap THEN m.config.keyMap2[key]
                                    ELSE m.config.keyMap1[key]), key - 1)

(***************************************************************************)
(* setup() and the memory image it starts from.                            *)
(***************************************************************************)
\* the state of the sketch at reset, with the EEPROM as it is
Reset(ee, pers) ==
  [config |-> ConfigData, useAlternateKeyMap |-> FALSE, ledState |-> AllOff,
   readBuffer |-> <<>>, strtokSave |-> <<>>, currentLedState |-> AllOff,
   eeprom |-> ee, pc |-> "boot", ret |-> "-", flashNr |-> 0, animFrame |-> 0,
   delayMs |-> 0, out |-> <<>>, kbd |-> <<>>, calls |-> <<>>, pre |-> NoPre,
   persisted |-> pers]

RECURSIVE LedsOff(_, _)
LedsOff(m, i) == IF i >= KEYCOUNT THEN m ELSE LedsOff(setLed(m, i, 0), i + 1)

\* a slip: setup() does not call handleLoad
setupWithoutLoad(m) == startupLedAnimation(LedsOff(clearReadBuffer(m), 0), "setup")

\* setup() up to the first delay of the start-up animation
setup(m) == startupLedAnimation(LedsOff(clearReadBuffer(handleLoad(m).m), 0), "setup")

(***************************************************************************)
(* The steps of the sketch.                                                *)
(***************************************************************************)
RECURSIVE Drain(_, _, _)

\* the while loop of handleSerialReceive on the bytes q that are available:
\* it runs until none is left or a handler waits in a delay
Drain(m, q, ov) ==
  IF q = <<>> \/ m.pc # "loop" THEN [m |-> m, rx |-> q]
  ELSE Drain(handleSerialReceive(m, Head(q), ov), Tail(q), ov)

\* a delay made by a handler ends
Woken(m) == [m EXCEPT !.pc = "loop", !.ret = "-", !.delayMs = 0]

\* the return of the blocking handler n into executeSerialCommands, and from
\* there on to the end of handleSerialReceive
ResumeLine(m, n, q, ov) == Drain(AfterHandler(Woken(m), HandlerIndex(n), 0, ov), q, ov)

\* a slip: the flash is given up after its first delay
FlashFirstDelayEndsEarly(m) == Woken(setLed(m, m.flashNr, 0))

\* the end of the first delay of a flash
FlashFirstDelayEnds(m) == [setLed(m, m.flashNr, 0) EXCEPT !.pc = "flash2"]

\* the end of the second delay of a flash, with the bytes q available
FlashSecondDelayEnds(m, q, ov) ==
  IF m.ret = "cmd" THEN ResumeLine(m, "flash", q, ov)
  ELSE [m |-> Woken(m), rx |-> q]

\* the end of the delay of an animation frame, with the bytes q available
AnimDelayEnds(m, q, ov) ==
  IF m.animFrame + 1 < Len(ledAnimation)
  THEN [m |-> AnimFrameBody(m, m.animFrame + 1), rx |-> q]
  ELSE IF m.ret = "cmd" THEN ResumeLine(AnimEnd(m), "animation", q, ov)
  ELSE [m |-> Woken(AnimEnd(m)), rx |-> q]

\* the step that leaves the sketch in state d.m with the bytes d.rx unread
Goes(d) == Becomes(d.m) /\ rx' = d.rx

\* power is applied: setup() runs up to the first delay of the animation
Boot ==
  /\ pc = "boot"
  /\ Becomes(setup(M))
  /\ UNCHANGED rx

\* loop() finds bytes on the serial port: handleSerialReceive
SerialReceive ==
  /\ pc = "loop"
  /\ rx # <<>>
  /\ \E ov \in AtoiOverflow : Goes(Drain(M, rx, ov))

\* loop() finds no byte, and the keypad reports a key
PollKey ==
  /\ pc = "loop"
  /\ rx = <<>>
  /\ \E key \in 1..MaxKey : Becomes(KeyPressed(M, key))
  /\ UNCHANGED rx

\* the first delay of a flash ends
FlashOff ==
  /\ pc = "flash1"
  /\ Becomes(FlashFirstDelayEnds(M))
  /\ UNCHANGED rx

\* the second delay of a flash ends
FlashDone ==
  /\ pc = "flash2"
  /\ \E ov \in AtoiOverflow : Goes(FlashSecondDelayEnds(M, rx, ov))

\* the delay of an animation frame ends
AnimStep ==
  /\ pc = "anim"
  /\ \E ov \in AtoiOverflow : Goes(AnimDelayEnds(M, rx, ov))

\* power is removed and applied again: only the EEPROM keeps its content
PowerCycle ==
  /\ pc # "boot"
  /\ Becomes(Reset(eeprom, persisted))
  /\ rx' = <<>>

\* the host writes bytes to the serial port, having read what was printed
HostSend(bytes) ==
  /\ pc # "boot"
  /\ rx = <<>>
  /\ rx' = bytes
  /\ IF pc = "loop"
     THEN out' = <<>> /\ kbd' = <<>> /\ calls' = <<>> /\ pre' = NoPre
     ELSE UNCHANGED <<out, kbd, calls, pre>>
  /\ UNCHANGED <<config, useAlternateKeyMap, ledState, readBuffer, strtokSave, currentLedState,
                 eeprom, pc, ret, flashNr, animFrame, delayMs, persisted>>

\* the variables hold the state m
Holds(m) ==
  /\ config = m.config
  /\ useAlternateKeyMap = m.useAlternateKeyMap
  /\ ledState = m.ledState
  /\ readBuffer = m.readBuffer
  /\ strtokSave = m.strtokSave
  /\ currentLedState = m.currentLedState
  /\ eeprom = m.eeprom
  /\ pc = m.pc
  /\ ret = m.ret
  /\ flashNr = m.flashNr
  /\ animFrame = m.animFrame
  /\ delayMs = m.delayMs
  /\ out = m.out
  /\ kbd = m.kbd
  /\ calls = m.calls
  /\ pre = m.pre
  /\ persisted = m.persisted

\* power is applied for the first time
Init ==
  /\ \E ee \in {ErasedEeprom, StaleEeprom} : Holds(Reset(ee, NoPersist))
  /\ rx = <<>>

(***************************************************************************)
(* What the host sends.                                                    *)
(***************************************************************************)
Long(n) == handlers[HandlerIndex(n)].command
Short(n) == handlers[HandlerIndex(n)].shortcode

\* the decimal digits of n >= 0
RECURSIVE Dec(_)
Dec(n) == IF n < 10 THEN <<48 + n>> ELSE Dec(n \div 10) \o <<48 + (n % 10)>>

\* words joined by single spaces
RECURSIVE Join(_)
Join(ws) ==
  IF ws = <<>> THEN <<>>
  ELSE IF Len(ws) = 1 THEN ws[1]
  ELSE ws[1] \o <<SP>> \o Join(Tail(ws))

C(c) == <<Ord(c)>>
BadCmd == Str(<<"b","a","d","c","m","d">>)

\* lines about the LEDs, among them the examples of the help text
LedLines ==
  { Join(<<Long("on"), Dec(1), Long("toggle"), Dec(7), Long("off"), Dec(3)>>),
    Join(<<Long("on"), Dec(1), BadCmd, Long("off"), Dec(3)>>),
    Join(<<Short("on"), Dec(3)>>),
    Join(<<Short("off"), Dec(1)>>),
    Join(<<Short("toggle"), Dec(7)>>),
    Join(<<Short("flash"), Dec(1), Dec(10)>>),
    Join(<<Long("flash"), Dec(1), Dec(5)>>),
    Join(<<Short("flash"), Dec(3), Dec(10), Short("on"), Dec(7)>>),
    Join(<<Short("animation")>>),
    Join(<<Short("animation"), Short("toggle"), Dec(1)>>),
    Join(<<Short("configtoggle"), Dec(1), C("t"), Short("setkeychar"), Dec(2), C("e"), Short("toggle"), Dec(1)>>),
    Join(<<Short("on")>>),
    Join(<<Short("on"), Dec(9)>>),
    Join(<<Short("on"), Dec(0)>>),
    Join(<<Short("on"), Dec(65537)>>),
    Join(<<Short("toggle"), Dec(3), Short("on")>>),
    Join(<<Short("on"), Dec(1), Long("setkeycode"), Dec(1), Dec(256), Short("off"), Dec(1)>>),
    Join(<<Long("setkeycode"), Dec(1)>>),
    Join(<<Short("usemap"), Dec(3)>>),
    Join(<<Short("configtoggle"), Dec(1), Str(<<"t","e">>)>>),
    Join(<<Short("configtoggle"), Dec(1)>>),
    Join(<<Short("setkeychar"), Dec(1), Str(<<"a","b">>)>>),
    Join(<<Short("setkeychar"), Dec(1)>>),
    Join(<<Short("flash"), Dec(1)>>),
    Join(<<Short("flash"), Dec(1), Dec(501)>>),
    Join(<<Short("getled"), Dec(1), Short("showsettings")>>),
    Join(<<Short("help"), Short("version")>>) }

\* lines about the configuration and its EEPROM record
CfgLines ==
  { Join(<<Long("usemap"), Dec(2)>>),
    Join(<<Long("setkeycode"), Dec(1), Dec(65)>>),
    Join(<<Long("usemap"), Dec(1)>>),
    Join(<<Short("usemap"), Dec(2), Short("setkeycode"), Dec(1), Dec(65), Short("usemap"), Dec(1)>>),
    Join(<<Short("configtoggle"), Dec(1), C("f")>>),
    Join(<<Short("setkeychar"), Dec(1), C("A")>>),
    Join(<<Long("persist")>>),
    Join(<<Long("load")>>),
    Join(<<Short("persist"), Short("load")>>),
    Join(<<Short("setkeycode"), Dec(1), Dec(65), Short("load")>>),
    Join(<<Short("setkeycode"), Dec(1), Dec(256)>>),
    Join(<<Short("usemap"), Dec(3)>>) }

\* codes and characters (as the bytes the host sends) given to a key
CodeSample == {0, 65, 127, 128, 200, 255}
CharSample == {49, 65, 200, 255}

\* lines that give a key its code, by number and by character
CodeLines ==
  { Join(<<Short("setkeycode"), Dec(1), Dec(code)>>) : code \in CodeSample }
    \cup { Join(<<Short("setkeychar"), Dec(1), <<c>>>>) : c \in CharSample }
    \cup { Join(<<Short("showsettings")>>),
           Join(<<Short("usemap"), Dec(2)>>),
           Join(<<Short("usemap"), Dec(1)>>),
           Join(<<Short("setkeycode"), Dec(1), Dec(256)>>),
           Join(<<Short("setkeychar"), Dec(1), Str(<<"A", "B">>)>>),
           Join(<<Short("flash"), Dec(1), Dec(10)>>) }

\* lines that configure what a key press does
KeyLines ==
  { Join(<<Short("configtoggle"), Dec(1), C("t")>>),
    Join(<<Short("configtoggle"), Dec(1), C("e")>>),
    Join(<<Short("configtoggle"), Dec(1), C("d")>>),
    Join(<<Short("configtoggle"), Dec(1), C("f")>>),
    Join(<<Short("usemap"), Dec(2)>>),
    Join(<<Short("usemap"), Dec(1)>>),
    Join(<<Short("setkeychar"), Dec(1), C("A")>>),
    Join(<<Short("toggle"), Dec(2)>>),
    Join(<<Short("configtoggle"), Dec(1), Str(<<"t","e">>)>>),
    Join(<<Short("configtoggle"), Dec(1), C("x")>>),
    Join(<<Short("configtoggle"), Dec(1)>>) }

Terminated(lines) == {l \o <<LF>> : l \in lines}

\* lines with commands that wait, and what they need to be seen at work
WaitLines ==
  { Join(<<Long("animation")>>),
    Join(<<Short("animation"), Short("toggle"), Dec(1)>>),
    Join(<<Short("flash"), Dec(1), Dec(10)>>),
    Join(<<Short("flash"), Dec(3), Dec(10), Short("on"), Dec(7)>>),
    Join(<<Short("on"), Dec(1)>>),
    Join(<<Short("toggle"), Dec(8)>>),
    Join(<<Short("configtoggle"), Dec(1), C("f")>>) }

\* the characters s followed by spaces up to the length n
PadTo(s, n) == s \o [i \in 1..(n - Len(s)) |-> SP]

\* lines as long as the buffer and longer, and short ones to set the LEDs
LongLines ==
  { PadTo(Join(<<Short("on"), Dec(1)>>), BufSize - 4) \o Join(<<Short("toggle"), Dec(2)>>),
    PadTo(Join(<<Short("on"), Dec(1)>>), BufSize - 1) \o Join(<<Short("toggle"), Dec(2)>>),
    PadTo(Join(<<Short("on"), Dec(3)>>), BufSize - 3) \o Join(<<Long("on"), Dec(1)>>),
    PadTo(Join(<<Short("toggle"), Dec(3)>>), BufSize - 2) \o Join(<<Short("toggle"), Dec(2)>>),
    Join(<<Short("on"), Dec(1), [i \in 1..(BufSize + 10) |-> Ord("x")]>>),
    Join(<<Short("off"), Dec(1)>>),
    Join(<<Short("flash"), Dec(2), Dec(10)>>) }

\* lines with a NUL byte in them, at the start and further on, and lines without
NulLines ==
  { <<NUL>> \o PadTo(Join(<<Short("on"), Dec(1)>>), BufSize - 11),
    Join(<<Short("on"), Dec(1)>>) \o <<NUL>> \o Join(<<Short("toggle"), Dec(2)>>),
    Join(<<Short("on"), Dec(2)>>),
    Join(<<Short("off"), Dec(1)>>),
    Join(<<Short("flash"), Dec(2), Dec(10)>>) }

\* what the host writes at a time: pieces of lines, line ends of every kind,
\* whole lines, several lines, a line and the start of the next
Chunks ==
  { Short("toggle"), <<SP>>, Dec(1),
    <<CR>>, <<LF>>, <<CR, LF>>, <<LF, CR>>,
    Join(<<Short("toggle"), Dec(1)>>) \o <<CR>>,
    Join(<<Short("toggle"), Dec(1), Short("getled"), Dec(1)>>) \o <<CR, LF>>,
    Join(<<Short("toggle"), Dec(2)>>) \o <<LF, CR>> \o Join(<<Short("toggle"), Dec(2), Short("getled"), Dec(2)>>) \o <<LF>>,
    Join(<<Short("on"), Dec(3)>>) \o <<CR>> \o Short("toggle"),
    Join(<<Short("flash"), Dec(2), Dec(10)>>) \o <<CR, LF>> }

\* lines without a verb, among them lines of spaces, and a few with one
RawLines ==
  { BadCmd,
    Join(<<C("x"), C("y"), C("z")>>),
    Join(<<Dec(1), Dec(2)>>),
    <<SP>>,
    <<SP, SP, SP>>,
    <<SP, SP>> \o BadCmd \o <<SP>>,
    <<SP>> \o Join(<<Short("toggle"), Dec(1)>>),
    Join(<<Short("on"), Dec(2)>>),
    Join(<<Short("flash"), Dec(2), Dec(10)>>) }

\* the steps of the sketch and of the host while the power stays on
Run(lines) ==
  \/ Boot
  \/ SerialReceive
  \/ PollKey
  \/ FlashOff
  \/ FlashDone
  \/ AnimStep
  \/ \E bytes \in Terminated(lines) : HostSend(bytes)

Next(lines) ==
  \/ Boot
  \/ SerialReceive
  \/ PollKey
  \/ FlashOff
  \/ FlashDone
  \/ AnimStep
  \/ PowerCycle
  \/ \E bytes \in Terminated(lines) : HostSend(bytes)

NextLed == Next(LedLines)
NextCfg == Next(CfgLines)
NextKey == Next(KeyLines)
NextWait == Run(WaitLines)
NextLong == Next(LongLines)
NextRaw == Next(RawLines)
NextCode == Next(CodeLines)
NextNul == Next(NulLines)

\* the bytes hold a line end
HasEnd(bytes) == \E i \in 1..Len(bytes) : bytes[i] \in {CR, LF}

\* the host writes bytes that need not be a whole line
HostSendPart(bytes) ==
  /\ HasEnd(bytes) \/ Len(readBuffer) + Len(bytes) <= MaxPart
  /\ HostSend(bytes)

NextPart ==
  \/ Boot
  \/ SerialReceive
  \/ PollKey
  \/ FlashOff
  \/ FlashDone
  \/ AnimStep
  \/ PowerCycle
  \/ \E bytes \in Chunks : HostSendPart(bytes)

\* every delay() returns, and setup() runs when power is applied: weak
\* fairness of the four steps.  FlashDone and AnimStep can be taken whenever
\* their guard on pc holds, so for them WF_vars(A), which is
\* []<>~ENABLED <<A>>_vars \/ []<><<A>>_vars, is written with the guard
DelaysEnd ==
  /\ WF_vars(Boot)
  /\ WF_vars(FlashOff)
  /\ ([]<>(pc # "flash2") \/ []<><<FlashDone>>_vars)
  /\ ([]<>(pc # "anim") \/ []<><<AnimStep>>_vars)

\* the sketch driven by the LED lines
SpecLed == Init /\ [][NextLed]_vars
\* the sketch driven by the configuration lines
SpecCfg == Init /\ [][NextCfg]_vars
\* the sketch driven by the lines about the keys
SpecKey == Init /\ [][NextKey]_vars
\* the sketch driven by the long lines
SpecLong == Init /\ [][NextLong]_vars
\* the sketch driven by the lines without a verb
SpecRaw == Init /\ [][NextRaw]_vars
\* the sketch driven by the lines that wait, with the power left on
SpecWait == Init /\ [][NextWait]_vars /\ DelaysEnd

(***************************************************************************)
(* The command grammar of the help text, used to state the properties:     *)
(* a line is words separated by single spaces; a command is a verb and as  *)
(* many arguments as the verb takes.                                       *)
(***************************************************************************)
RECURSIVE Words(_)
Words(s) ==
  IF s = <<>> THEN <<>>
  ELSE IF \A i \in 1..Len(s) : s[i] # SP THEN <<s>>
  ELSE <<SubSeq(s, 1, TokEnd(s, 1) - 1)>> \o Words(SubSeq(s, TokEnd(s, 1) + 1, Len(s)))

\* the verb a word names, "" when it names none
VerbOf(w) ==
  IF \E i \in 1..Len(handlers) : w \in {handlers[i].command, handlers[i].shortcode}
  THEN handlers[CHOOSE i \in 1..Len(handlers) : w \in {handlers[i].command, handlers[i].shortcode}].name
  ELSE ""

Arity(verb) ==
  CASE verb \in {"getled", "toggle", "on", "off", "usemap"} -> 1
    [] verb \in {"flash", "configtoggle", "setkeycode", "setkeychar"} -> 2
    [] OTHER -> 0

\* the commands of a list of words, up to and including the first word in
\* verb position that names no verb
RECURSIVE Commands(_)
Commands(ws) ==
  IF ws = <<>> THEN <<>>
  ELSE IF VerbOf(ws[1]) = "" THEN << [verb |-> "", words |-> <<ws[1]>>] >>
  ELSE IF Len(ws) - 1 <= Arity(VerbOf(ws[1])) THEN << [verb |-> VerbOf(ws[1]), words |-> ws] >>
  ELSE << [verb |-> VerbOf(ws[1]), words |-> SubSeq(ws, 1, 1 + Arity(VerbOf(ws[1])))] >>
       \o Commands(SubSeq(ws, 2 + Arity(VerbOf(ws[1])), Len(ws)))

\* the number a decimal numeral denotes
RECURSIVE Value(_)
Value(w) == IF w = <<>> THEN 0 ELSE 10 * Value(SubSeq(w, 1, Len(w) - 1)) + (w[Len(w)] - 48)

IsNumeral(w) == w # <<>> /\ \A i \in 1..Len(w) : IsDigit(w[i])
InRange(w, lo, hi) == IsNumeral(w) /\ Value(w) >= lo /\ Value(w) <= hi

\* the command has its verb's number of arguments, each as the help text declares it
ValidCommand(c) ==
  /\ c.verb # ""
  /\ Len(c.words) = 1 + Arity(c.verb)
  /\ CASE c.verb \in {"getled", "toggle", "on", "off"} -> InRange(c.words[2], 1, 8)
       [] c.verb = "usemap" -> InRange(c.words[2], 1, 2)
       [] c.verb = "flash" -> InRange(c.words[2], 1, 8) /\ InRange(c.words[3], 10, 500)
       [] c.verb = "configtoggle" -> InRange(c.words[2], 1, 8) /\ c.words[3] \in {C("t"), C("e"), C("d"), C("f")}
       [] c.verb = "setkeycode" -> InRange(c.words[2], 1, 8) /\ InRange(c.words[3], 0, 255)
       [] c.verb = "setkeychar" -> InRange(c.words[2], 1, 8) /\ Len(c.words[3]) = 1
       [] OTHER -> TRUE

AllValid(cs) == \A i \in 1..Len(cs) : ValidCommand(cs[i])

\* the commands in front of the first one that is not valid
RECURSIVE ValidPrefix(_)
ValidPrefix(cs) ==
  IF cs = <<>> \/ ~ValidCommand(cs[1]) THEN <<>> ELSE <<cs[1]>> \o ValidPrefix(Tail(cs))

\* the first command that is not valid (there is one)
FirstInvalid(cs) == cs[Len(ValidPrefix(cs)) + 1]

Verbs(cs) == [i \in 1..Len(cs) |-> cs[i].verb]

(***************************************************************************)
(* The sketch run on one line from a given state, to the end of the line.  *)
(***************************************************************************)
\* what a command can change: configuration, LEDs, selector, EEPROM
Observed(m) ==
  [config |-> m.config, ledState |-> m.ledState,
   useAlternateKeyMap |-> m.useAlternateKeyMap, eeprom |-> m.eeprom]

Now == Observed(M)
Before == Observed(pre)

\* the sketch idle in loop() with the observed state s
Idle(s) ==
  [Reset(s.eeprom, NoPersist) EXCEPT !.config = s.config, !.ledState = s.ledState,
                                     !.useAlternateKeyMap = s.useAlternateKeyMap, !.pc = "loop"]

\* the delays in progress run out, one after the other, until loop() is reached
RECURSIVE Finish(_)
Finish(d) ==
  IF d.m.pc = "flash1" THEN Finish([m |-> FlashFirstDelayEnds(d.m), rx |-> d.rx])
  ELSE IF d.m.pc = "flash2" THEN Finish(FlashSecondDelayEnds(d.m, d.rx, "sat"))
  ELSE IF d.m.pc = "anim" THEN Finish(AnimDelayEnds(d.m, d.rx, "sat"))
  ELSE d

\* the observed state after the words ws are sent as a line of their own in state s
RunAlone(s, ws) == Observed(Finish(Drain(Idle(s), Join(ws) \o <<LF>>, "sat")).m)

\* the observed state after each of the commands cs is sent as a line of its own
RECURSIVE RunEach(_, _)
RunEach(s, cs) == IF cs = <<>> THEN s ELSE RunEach(RunAlone(s, cs[1].words), Tail(cs))

\* a command line has just been executed to its end
LineExecuted == pre.valid /\ pc = "loop"

\* the commands of the line that has just been executed
Cmds == Commands(Words(pre.line))

Errors(o) == {i \in 1..Len(o) : IsErrorMsg(o[i])}

\* what the line that has just been executed has printed
LineOut == SubSeq(out, pre.printed + 1, Len(out))

\* the handlers the line has called, in order
Called_Names == [i \in 1..Len(calls) |-> calls[i].name]

HelpExample == Join(<<Long("on"), Dec(1), Long("toggle"), Dec(7), Long("off"), Dec(3)>>)
BadExample == Join(<<Long("on"), Dec(1), BadCmd, Long("off"), Dec(3)>>)

(***************************************************************************)
(* C1: a line made only of valid commands has the effect of its commands   *)
(* sent one per line in the same order; the handlers called are exactly    *)
(* the verbs of the commands (no argument is dispatched as a verb), none   *)
(* fails and no error is printed; "on 1 toggle 7 off 3" from all-off gives *)
(* LED 1 on, LED 7 on, LED 3 off.                                          *)
(***************************************************************************)
C1_ValidLineRunsEachCommand ==
  (LineExecuted /\ AllValid(Cmds)) =>
    /\ Now = RunEach(Before, Cmds)
    /\ Called_Names = Verbs(Cmds)
    /\ \A i \in 1..Len(calls) : calls[i].rc = 0
    /\ Errors(LineOut) = {}
    /\ (pre.line = HelpExample /\ pre.ledState = AllOff) =>
         (ledState[1] = 1 /\ ledState[7] = 1 /\ ledState[3] = 0)

C1_Witness ==
  /\ LineExecuted
  /\ pre.line = HelpExample
  /\ pre.ledState = AllOff
  /\ ledState = [AllOff EXCEPT ![1] = 1, ![7] = 1]

(***************************************************************************)
(* C2: when a word in verb position names no verb, exactly one             *)
(* unknown-command error is printed, the commands before it have had their *)
(* effect and nothing after it is executed; "on 1 badcmd off 3" leaves     *)
(* LED 1 on and LED 3 as it was.                                           *)
(***************************************************************************)
C2_UnknownVerbStopsLine ==
  (LineExecuted /\ ~AllValid(Cmds) /\ FirstInvalid(Cmds).verb = "") =>
    /\ Now = RunEach(Before, ValidPrefix(Cmds))
    /\ Called_Names = Verbs(ValidPrefix(Cmds))
    /\ Errors(LineOut) = {Len(LineOut)}
    /\ LineOut[Len(LineOut)] = MSG_UNKNOWN
    /\ (pre.line = BadExample) => (ledState[1] = 1 /\ ledState[3] = pre.ledState[3])

C2_Witness ==
  /\ LineExecuted
  /\ pre.line = BadExample
  /\ pre.ledState[1] = 0 /\ pre.ledState[3] = 1
  /\ ledState[1] = 1 /\ ledState[3] = 1
  /\ LineOut = <<MSG_UNKNOWN>>

(***************************************************************************)
(* C3: when an argument of a command is missing, out of its declared range *)
(* or not a single character, an error is printed, the rest of the line is *)
(* abandoned and the command leaves configuration, LEDs, selector and      *)
(* EEPROM as the commands before it left them.                             *)
(***************************************************************************)
C3_FailingCommandChangesNothing ==
  (LineExecuted /\ ~AllValid(Cmds) /\ FirstInvalid(Cmds).verb # "") =>
    /\ Now = RunEach(Before, ValidPrefix(Cmds))
    /\ Called_Names = Verbs(ValidPrefix(Cmds)) \o <<FirstInvalid(Cmds).verb>>
    /\ calls[Len(calls)].rc = 1
    /\ Errors(LineOut) = {Len(LineOut)}

(***************************************************************************)
(* The configuration and its EEPROM record.                                *)
(***************************************************************************)
MapExample ==
  Join(<<Short("usemap"), Dec(2), Short("setkeycode"), Dec(1), Dec(65), Short("usemap"), Dec(1)>>)
PersistLoad == Join(<<Short("persist"), Short("load")>>)
EditLoad == Join(<<Short("setkeycode"), Dec(1), Dec(65), Short("load")>>)

\* the EEPROM holds the version tag of this sketch
Tagged(ee) == IntOfBytes(SubSeq(ee, 1, IntSize)) = VersionTag

\* the state s with entry k of the array f of the active pair set to v
WithEntry(s, f, k, v) == [s EXCEPT !.config[f][k] = v]

\* the observed state executeSerialCommands would leave if the line of the
\* words ws came next in the state the sketch is in
After(ws) ==
  Observed(Finish([m |-> executeSerialCommands([Idle(Now) EXCEPT !.readBuffer = Join(ws)], "sat"),
                   rx |-> <<>>]).m)

\* the arrays of the pair the selector designates in the observed state s
ActiveKeyMap(s) == IF s.useAlternateKeyMap THEN "keyMap2" ELSE "keyMap1"
ActiveLedConfig(s) == IF s.useAlternateKeyMap THEN "ledConfig2" ELSE "ledConfig1"

(***************************************************************************)
(* C4: setkeycode, setkeychar and configtoggle with index k change entry k *)
(* of the map pair the selector designates when the command runs, and      *)
(* nothing else: not another entry, not the other pair, not the LEDs, the  *)
(* selector or the EEPROM.  After "usemap 2", "setkeycode 1 65",           *)
(* "usemap 1" key 1 of the primary map has the code it had and key 1 of    *)
(* the alternate map has code 65.                                          *)
(***************************************************************************)
C4_EditChangesOnlyActiveEntry ==
  /\ LineExecuted =>
       \A k \in Keys :
         /\ After(<<Long("setkeycode"), Dec(k), Dec(65)>>)
              = WithEntry(Now, ActiveKeyMap(Now), k, 65)
         /\ After(<<Long("setkeychar"), Dec(k), C("A")>>)
              = WithEntry(Now, ActiveKeyMap(Now), k, 65)
         /\ After(<<Long("configtoggle"), Dec(k), C("f")>>)
              = WithEntry(Now, ActiveLedConfig(Now), k, Ord("f"))
  /\ (LineExecuted /\ pre.line = MapExample) =>
       /\ config = [pre.config EXCEPT !.keyMap2[1] = 65]
       /\ config.keyMap1[1] = pre.config.keyMap1[1]
       /\ ~useAlternateKeyMap
       /\ ledState = pre.ledState /\ eeprom = pre.eeprom

C4_Witness ==
  /\ LineExecuted
  /\ pre.line = MapExample
  /\ pre.config.keyMap2[1] = 49
  /\ config.keyMap2[1] = 65
  /\ config.keyMap1[1] = ToChar(KEY_F13)

(***************************************************************************)
(* C5: in every reachable state, persist followed at once by load leaves   *)
(* the configuration in memory equal to the one persisted, in all four     *)
(* arrays.                                                                 *)
(***************************************************************************)
C5_PersistThenLoadIsIdentity ==
  /\ handleLoad(handlePersist(M).m).m.config = config
  /\ ConfigOfBytes(ConfigBytes(config)) = config
  /\ (LineExecuted /\ pre.line = PersistLoad) =>
       (config = pre.config /\ Called_Names = <<"persist", "load">>
          /\ LineOut = <<MSG_PERSISTED, MSG_LOADED>>)

C5_Witness ==
  /\ LineExecuted
  /\ pre.line = PersistLoad
  /\ config = pre.config
  /\ config.keyMap1[1] = 65
  /\ config.keyMap1[2] < 0
  /\ config.ledConfig1[1] = Ord("f")
  /\ Tagged(eeprom)

\* a load command was the last one of the line just executed
LoadRan == LineExecuted /\ calls # <<>> /\ calls[Len(calls)].name = "load"

(***************************************************************************)
(* C6 as it is written: whenever load runs while the EEPROM holds no       *)
(* matching version tag, the configuration after it is the compiled-in     *)
(* defaults, and no error is reported.                                     *)
(***************************************************************************)
C6_LoadWithoutTagGivesDefaults ==
  /\ (LoadRan /\ ~Tagged(eeprom)) => (config = ConfigData /\ Errors(LineOut) = {})
  /\ (pc = "anim" /\ ret = "setup" /\ ~Tagged(eeprom)) => config = ConfigData

(***************************************************************************)
(* C6, amended: whenever load runs while the EEPROM holds no matching      *)
(* version tag, the configuration is left as it was before the load (at    *)
(* boot that is the compiled-in defaults; through the load command the     *)
(* edits made since boot stay), and nothing is printed.                    *)
(***************************************************************************)
C6_LoadWithoutTagKeepsConfig ==
  /\ ~Tagged(eeprom) => handleLoad(M) = Ret(M, 0)
  /\ (LoadRan /\ Len(calls) = 1 /\ ~Tagged(eeprom)) => (Now = Before /\ LineOut = <<>>)
  /\ (LoadRan /\ pre.line = EditLoad /\ ~Tagged(eeprom)) =>
       (Now = WithEntry(Before, ActiveKeyMap(Before), 1, 65) /\ LineOut = <<>>)
  /\ (pc = "anim" /\ ret = "setup" /\ ~Tagged(eeprom)) => config = ConfigData

C6_Witness ==
  /\ LoadRan
  /\ Len(calls) = 1
  /\ ~Tagged(eeprom)
  /\ config # ConfigData
  /\ config = pre.config

(***************************************************************************)
(* C7 as it is written: the load command discards every unpersisted edit:  *)
(* after it the configuration is the one of the most recent persist (with  *)
(* no persist yet, the one the sketch booted with).                        *)
(***************************************************************************)
C7_LoadDiscardsEdits ==
  LoadRan => config = persisted.config

(***************************************************************************)
(* C7, amended: provided a persist has happened (the EEPROM holds a record *)
(* with the matching tag), after the load command the configuration is the *)
(* one of the most recent persist: the edits made since are gone.  With no *)
(* such record the load command keeps the edits.                           *)
(***************************************************************************)
C7_LoadRestoresPersisted ==
  /\ (LoadRan /\ persisted.valid) => (config = persisted.config /\ LineOut[Len(LineOut)] = MSG_LOADED)
  /\ (LineExecuted /\ persisted.valid) => \A k \in Keys :
        /\ After(<<Long("setkeycode"), Dec(k), Dec(66), Long("load")>>).config = persisted.config
        /\ After(<<Long("configtoggle"), Dec(k), C("d"), Long("load")>>).config = persisted.config
  /\ (LoadRan /\ ~persisted.valid /\ pre.line = EditLoad) =>
       config = WithEntry(Before, ActiveKeyMap(Before), 1, 65).config

C7_Witness ==
  /\ LoadRan
  /\ pre.line = EditLoad
  /\ persisted.valid
  /\ ~pre.useAlternateKeyMap
  /\ persisted.config.keyMap1[1] # 65
  /\ config = persisted.config

\* the handler called n has run in the line being executed
Ran(cs, n) == \E i \in 1..Len(cs) : cs[i].name = n

(***************************************************************************)
(* C8: the EEPROM changes only in a step in which the persist command      *)
(* runs: no other command, no key press, no delay and no boot writes it;   *)
(* so once persisted, the record is always the tag and the configuration   *)
(* of the most recent persist, and before that it is what it was at first  *)
(* power-up.                                                               *)
(***************************************************************************)
C8_OnlyPersistWrites ==
  [][ /\ (eeprom' # eeprom) => (Ran(calls', "persist") /\ pc' # "boot")
      /\ persisted'.valid => eeprom' = IntBytes(VersionTag) \o ConfigBytes(persisted'.config)
      /\ ~persisted'.valid => eeprom' \in {ErasedEeprom, StaleEeprom} ]_vars

C8_Witness ==
  /\ LineExecuted
  /\ Ran(calls, "setkeychar")
  /\ ~Ran(calls, "persist")
  /\ persisted.valid
  /\ config # persisted.config
  /\ eeprom = IntBytes(VersionTag) \o ConfigBytes(persisted.config)

\* the step in which setup() returns
SetupReturns == pc = "anim" /\ ret = "setup" /\ pc' = "loop"

(***************************************************************************)
(* C9: when setup() returns, before any command or key press is handled,   *)
(* the selector is Primary, every LED is off, the input buffer is empty    *)
(* and the configuration is the one of the most recent persist if there    *)
(* was one, the compiled-in defaults otherwise; nothing else survives the  *)
(* reboot.                                                                 *)
(***************************************************************************)
C9_StateAfterBoot ==
  [][ /\ SetupReturns =>
           /\ useAlternateKeyMap' = FALSE
           /\ ledState' = AllOff
           /\ readBuffer' = <<>>
           /\ config' = IF persisted.valid THEN persisted.config ELSE ConfigData
           /\ calls' = <<>> /\ kbd' = <<>>
      /\ (pc' = "boot") =>
           (useAlternateKeyMap' = FALSE /\ ledState' = AllOff /\ eeprom' = eeprom) ]_vars

C9_Witness ==
  /\ pc = "loop"
  /\ persisted.valid
  /\ persisted.config.keyMap1[1] = 65
  /\ config = persisted.config
  /\ ledState = AllOff
  /\ ~useAlternateKeyMap
  /\ calls = <<>> /\ kbd = <<>> /\ out = <<MSG_LOADED>>

(***************************************************************************)
(* C10: the selector starts as Primary and changes only in a step in which *)
(* a usemap command succeeds: "usemap 1" sets Primary, "usemap 2" sets     *)
(* Alternate; no other command, no failed command and no key press changes *)
(* it (a reboot starts it as Primary again).                               *)
(***************************************************************************)
C10_SelectorChangesOnlyByUsemap ==
  /\ [](pc = "boot" => ~useAlternateKeyMap)
  /\ [][ (useAlternateKeyMap' # useAlternateKeyMap) =>
           (pc' = "boot" \/ \E i \in 1..Len(calls') : calls'[i] = [name |-> "usemap", rc |-> 0]) ]_vars
  /\ []((LineExecuted /\ Len(Cmds) = 1 /\ Called_Names = <<"usemap">>) =>
          /\ (pre.line = Long("usemap") \o <<SP>> \o Dec(1)) => ~useAlternateKeyMap
          /\ (pre.line = Long("usemap") \o <<SP>> \o Dec(2)) => useAlternateKeyMap
          /\ (calls[1].rc # 0) => useAlternateKeyMap = pre.useAlternateKeyMap)
  /\ [](LineExecuted => /\ After(<<Long("usemap"), Dec(1)>>).useAlternateKeyMap = FALSE
                         /\ After(<<Long("usemap"), Dec(2)>>).useAlternateKeyMap = TRUE
                         /\ After(<<Long("usemap"), Dec(3)>>).useAlternateKeyMap = useAlternateKeyMap
                         /\ After(<<Long("persist"), Long("load")>>).useAlternateKeyMap = useAlternateKeyMap)

C10_Witness ==
  /\ LineExecuted
  /\ pre.line = Short("usemap") \o <<SP>> \o Dec(3)
  /\ pre.useAlternateKeyMap
  /\ useAlternateKeyMap
  /\ calls = <<[name |-> "usemap", rc |-> 1]>>

(***************************************************************************)
(* Key presses and the LEDs.                                               *)
(***************************************************************************)
\* a step in which loop() finds no byte to read and the keypad reports a key
KeyStep == pc = "loop" /\ rx = <<>> /\ rx' = <<>> /\ pc' # "boot"

\* the code and the LED behaviour of key k in the pair the selector designates
ActiveCode(k) == IF useAlternateKeyMap THEN config.keyMap2[k] ELSE config.keyMap1[k]
ActiveSetting(k) == IF useAlternateKeyMap THEN config.ledConfig2[k] ELSE config.ledConfig1[k]

\* no LED but the one of key k changes in the step
OnlyLed(k) == \A j \in Keys \ {k} : ledState'[j] = ledState[j]

\* the sketch waits in a delay of the flash a key press has started
KeyFlashing == pc \in {"flash1", "flash2"} /\ ret = "key"

(***************************************************************************)
(* C11: a key press of key k emits exactly one keystroke, with the code of *)
(* entry k of the key map that is active at that moment, and then runs the *)
(* LED behaviour of key k in the same active pair: t flips LED k, e sets   *)
(* it on, d sets it off, f lights it and ends with it off; no other LED    *)
(* changes, and no other step emits a keystroke.                           *)
(***************************************************************************)
C11_KeyPressEmitsAndRunsBehaviour ==
  /\ [][ /\ KeyStep => \E k \in 1..MaxKey :
              /\ kbd' = <<ToByte(ActiveCode(k))>>
              /\ OnlyLed(k)
              /\ (ActiveSetting(k) = Ord("t")) => (ledState'[k] = 1 - ledState[k] /\ pc' = "loop")
              /\ (ActiveSetting(k) = Ord("e")) => (ledState'[k] = 1 /\ pc' = "loop")
              /\ (ActiveSetting(k) = Ord("d")) => (ledState'[k] = 0 /\ pc' = "loop")
              /\ (ActiveSetting(k) = Ord("f")) =>
                   (ledState'[k] = 1 /\ pc' = "flash1" /\ ret' = "key" /\ flashNr' = k - 1
                      /\ delayMs' = KeyFlashDelay)
         /\ (KeyFlashing /\ pc' # "boot") =>
              /\ kbd' = kbd
              /\ IF pc' = pc THEN ledState' = ledState
                 ELSE /\ OnlyLed(flashNr + 1)
                      /\ ledState'[flashNr + 1] = 0
                      /\ pc' = IF pc = "flash1" THEN "flash2" ELSE "loop"
         /\ ~KeyStep => kbd' \in {kbd, <<>>} ]_vars
  /\ [](LineExecuted => \A k \in Keys :
          /\ KeyPressed(M, k).kbd = <<ToByte(ActiveCode(k))>>
          /\ \A j \in Keys \ {k} : KeyPressed(M, k).ledState[j] = ledState[j]
          /\ KeyPressed(M, k).ledState[k] =
                CASE ActiveSetting(k) = Ord("t") -> 1 - ledState[k]
                  [] ActiveSetting(k) = Ord("d") -> 0
                  [] OTHER -> 1)

C11_Witness ==
  /\ pc = "flash1" /\ ret = "key"
  /\ useAlternateKeyMap
  /\ config.keyMap2[1] = 65 /\ config.keyMap1[1] # 65
  /\ config.ledConfig2[1] = Ord("f") /\ config.ledConfig1[1] = Ord("d")
  /\ kbd = <<65>>
  /\ ledState = [AllOff EXCEPT ![1] = 1, ![2] = 1]

\* the observed state with LED k flipped
Flipped(s, k) == [s EXCEPT !.ledState[k] = 1 - @]

(***************************************************************************)
(* C12: for every key k in 1..8 and every LED state, a toggle of k changes *)
(* LED k only (it flips it), and a toggle of k followed by a toggle of k   *)
(* gives back the LED state there was.                                     *)
(***************************************************************************)
C12_ToggleTwiceRestores ==
  /\ LineExecuted => \A k \in Keys :
       /\ After(<<Long("toggle"), Dec(k)>>) = Flipped(Now, k)
       /\ After(<<Short("toggle"), Dec(k), Short("toggle"), Dec(k)>>) = Now
       /\ RunEach(Now, Commands(<<Long("toggle"), Dec(k), Long("toggle"), Dec(k)>>)) = Now
       /\ toggleLed(toggleLed(M, k - 1), k - 1) = M
  /\ (LineExecuted /\ Len(Cmds) = 1 /\ AllValid(Cmds) /\ Cmds[1].verb = "toggle") =>
       Now = Flipped(Before, Value(Cmds[1].words[2]))

C12_Witness ==
  /\ LineExecuted
  /\ pre.line = Short("toggle") \o <<SP>> \o Dec(7)
  /\ pre.ledState[7] = 1
  /\ ledState[7] = 0
  /\ ledState[1] = 1

(***************************************************************************)
(* Commands that wait.                                                     *)
(***************************************************************************)
\* the sketch waits in a delay made by the command the line has reached
CmdWaiting(p) == pc = p /\ ret = "cmd" /\ pre.valid

\* the commands of the line that have returned, and the one that waits
Returned_Cmds == SubSeq(Cmds, 1, Len(calls))
Waiting_Cmd == Cmds[Len(calls) + 1]

\* the observed state the commands that have returned have left
Reached == RunEach(Before, Returned_Cmds)

\* the state in which executeSerialCommands, run on the words ws in the state
\* the sketch is in, waits first (or returns)
Started(ws) == executeSerialCommands([Idle(Now) EXCEPT !.readBuffer = Join(ws)], "sat")

\* the observed state s with LED k set to v
WithLed(s, k, v) == [s EXCEPT !.ledState[k] = v]

\* hold times of a flash: the ends of the range
FlashTimes == {10, 500}

(***************************************************************************)
(* C13: for every k in 1..8 and ms in 10..500 the flash command lights LED *)
(* k and holds ms, then turns it off and holds ms: LED k is on during the  *)
(* first hold and off when the command completes, whatever it was before,  *)
(* and no other LED (nor anything else) changes at any point of the flash. *)
(***************************************************************************)
C13_FlashOnThenOff ==
  /\ (CmdWaiting("flash1") \/ CmdWaiting("flash2")) =>
       /\ Waiting_Cmd.verb = "flash"
       /\ flashNr + 1 = Value(Waiting_Cmd.words[2])
       /\ delayMs = Value(Waiting_Cmd.words[3])
       /\ Now = WithLed(Reached, flashNr + 1, IF pc = "flash1" THEN 1 ELSE 0)
  /\ (LineExecuted /\ Len(Cmds) = 1 /\ AllValid(Cmds) /\ Cmds[1].verb = "flash") =>
       Now = WithLed(Before, Value(Cmds[1].words[2]), 0)
  /\ LineExecuted => \A k \in Keys : \A ms \in FlashTimes :
       /\ Started(<<Long("flash"), Dec(k), Dec(ms)>>).pc = "flash1"
       /\ Started(<<Long("flash"), Dec(k), Dec(ms)>>).delayMs = ms
       /\ Observed(Started(<<Long("flash"), Dec(k), Dec(ms)>>)) = WithLed(Now, k, 1)
       /\ FlashFirstDelayEnds(Started(<<Long("flash"), Dec(k), Dec(ms)>>)).pc = "flash2"
       /\ FlashFirstDelayEnds(Started(<<Long("flash"), Dec(k), Dec(ms)>>)).delayMs = ms
       /\ Observed(FlashFirstDelayEnds(Started(<<Long("flash"), Dec(k), Dec(ms)>>))) = WithLed(Now, k, 0)
       /\ After(<<Long("flash"), Dec(k), Dec(ms)>>) = WithLed(Now, k, 0)

C13_Witness ==
  /\ CmdWaiting("flash1")
  /\ pre.line = Short("flash") \o <<SP>> \o Dec(1) \o <<SP>> \o Dec(10)
  /\ pre.ledState[1] = 1 /\ pre.ledState[7] = 1
  /\ ledState[1] = 1 /\ ledState[7] = 1
  /\ delayMs = 10

\* the LEDs of frame f (one based) of the animation
Pair(f) == {ledAnimation[f][1], ledAnimation[f][2]}

\* the LEDs as they are during the hold of frame f (one based), the animation
\* having started with the LEDs as in snapshot
FrameLeds(snapshot, f) ==
  [j \in Keys |-> IF j \in Pair(f) THEN 1
                  ELSE IF \E g \in 1..(f - 1) : j \in Pair(g) THEN 0
                  ELSE snapshot[j]]

LastFrame == Len(ledAnimation) - 1

(***************************************************************************)
(* C14: the start-up animation, run at boot or by the animation command    *)
(* from any LED state, terminates, and on return every LED is as it was    *)
(* when the animation started (LEDs that were on are on again); each frame *)
(* lights its pair before it turns off the pair of the frame before, and   *)
(* holds 250 ms; nothing but the LEDs changes.  It terminates: the hold of *)
(* every frame ends, a frame is followed by the next one and the last one  *)
(* by the return.                                                          *)
(***************************************************************************)
C14_AnimationRestoresLeds ==
  /\ [](pc = "anim" =>
          /\ ledState = FrameLeds(currentLedState, animFrame + 1)
          /\ delayMs = AnimDelay
          /\ (ret = "setup") => currentLedState = AllOff
          /\ (ret = "cmd") =>
               /\ Waiting_Cmd.verb = "animation"
               /\ currentLedState = Reached.ledState
               /\ Now = [Reached EXCEPT !.ledState = ledState])
  /\ [](\A i \in 1..LastFrame :
          /\ {FrameCalls(i)[1].nr + 1, FrameCalls(i)[2].nr + 1} = Pair(i + 1)
          /\ {FrameCalls(i)[3].nr + 1, FrameCalls(i)[4].nr + 1} = Pair(i)
          /\ <<FrameCalls(i)[1].onOff, FrameCalls(i)[2].onOff>> = <<1, 1>>
          /\ <<FrameCalls(i)[3].onOff, FrameCalls(i)[4].onOff>> = <<0, 0>>)
  /\ [][ (pc = "anim") =>
           \/ /\ pc' = "anim"
              /\ UNCHANGED <<animFrame, ledState, currentLedState>>
           \/ /\ animFrame < LastFrame
              /\ pc' = "anim"
              /\ animFrame' = animFrame + 1
              /\ currentLedState' = currentLedState
           \/ /\ animFrame = LastFrame
              /\ (ret = "setup") => (ledState' = currentLedState /\ pc' = "loop")
              /\ (ret = "cmd" /\ rx = <<>> /\ Len(Cmds) = Len(calls) + 1) =>
                   /\ ledState' = currentLedState
                   /\ pc' = "loop"
                   /\ calls' = Append(calls, [name |-> "animation", rc |-> 0]) ]_vars
  /\ []((LineExecuted /\ Len(Cmds) = 1 /\ Cmds[1].verb = "animation") => Now = Before)
  /\ \A f \in 0..LastFrame :
       (pc = "anim" /\ animFrame = f) ~> ~(pc = "anim" /\ animFrame = f)

C14_Witness ==
  /\ LineExecuted
  /\ pre.line = Long("animation")
  /\ calls = <<[name |-> "animation", rc |-> 0]>>
  /\ pre.ledState = [AllOff EXCEPT ![1] = 1, ![8] = 1]
  /\ ledState = pre.ledState

\* the settings of a key: toggle, enable, disable, flash
Settings == {Ord("t"), Ord("e"), Ord("d"), Ord("f")}

\* tokens that are not one of the four settings
BadSettings ==
  { Str(<<"t","e">>), Str(<<"t","e","d","f">>), C("x"), C("A"), C("1") }

(***************************************************************************)
(* C15: configtoggle accepts exactly the one-character tokens t, e, d, f   *)
(* and stores the character for the key in the active pair; any other      *)
(* token (none, several characters such as "te", another character) is     *)
(* rejected with a message and changes nothing; so in every reachable      *)
(* state every entry of both LED-behaviour maps is one of t, e, d, f.      *)
(***************************************************************************)
C15_OnlyFourSettings ==
  /\ \A k \in Keys : config.ledConfig1[k] \in Settings /\ config.ledConfig2[k] \in Settings
  /\ (LineExecuted /\ Len(Cmds) = 1 /\ Cmds[1].verb = "configtoggle"
        /\ Len(Cmds[1].words) >= 2 /\ InRange(Cmds[1].words[2], 1, KEYCOUNT)) =>
       IF ValidCommand(Cmds[1])
       THEN /\ Now = WithEntry(Before, ActiveLedConfig(Before), Value(Cmds[1].words[2]),
                               Cmds[1].words[3][1])
            /\ LineOut = <<>>
       ELSE /\ Now = Before
            /\ LineOut = <<MSG_SETTING>>
            /\ calls = <<[name |-> "configtoggle", rc |-> 1]>>
  /\ LineExecuted => \A k \in {KEYCOUNT} :
       /\ \A c \in Settings :
            After(<<Long("configtoggle"), Dec(k), <<c>> >>) = WithEntry(Now, ActiveLedConfig(Now), k, c)
       /\ \A w \in BadSettings : After(<<Long("configtoggle"), Dec(k), w>>) = Now
       /\ After(<<Long("configtoggle"), Dec(k)>>) = Now

C15_Witness ==
  /\ LineExecuted
  /\ pre.line = Join(<<Short("configtoggle"), Dec(1), Str(<<"t","e">>)>>)
  /\ LineOut = <<MSG_SETTING>>
  /\ pre.config.ledConfig1[1] = Ord("e")
  /\ ~useAlternateKeyMap
  /\ config = pre.config

(***************************************************************************)
(* The input line.                                                         *)
(***************************************************************************)
\* the characters of the bytes q in front of the first line end
Content(q) ==
  IF \E i \in 1..Len(q) : q[i] \in {CR, LF}
  THEN SubSeq(q, 1, (CHOOSE i \in 1..Len(q) : q[i] \in {CR, LF} /\ \A j \in 1..(i - 1) : q[j] \notin {CR, LF}) - 1)
  ELSE q

\* the first n characters of s
Take(s, n) == SubSeq(s, 1, IF Len(s) < n THEN Len(s) ELSE n)

\* the most characters a line can hold
MaxLine == BufSize - 1

\* a step in which loop() reads the line the host has sent
ReadStep == pc = "loop" /\ rx # <<>> /\ pc' # "boot"

\* the step leaves the sketch as the bytes q would, read in the state it is in
AsIfSent(q) ==
  /\ <<config', useAlternateKeyMap', ledState', eeprom'>>
       = <<Drain(M, q, "sat").m.config, Drain(M, q, "sat").m.useAlternateKeyMap,
           Drain(M, q, "sat").m.ledState, Drain(M, q, "sat").m.eeprom>>
  /\ <<out', calls', pre', readBuffer', pc'>>
       = <<Drain(M, q, "sat").m.out, Drain(M, q, "sat").m.calls, Drain(M, q, "sat").m.pre,
           Drain(M, q, "sat").m.readBuffer, Drain(M, q, "sat").m.pc>>

(***************************************************************************)
(* C16: a line holds at most 79 characters: the characters received after  *)
(* the 79th and before the line end are dropped, with no error of their    *)
(* own, and when the line end arrives the commands in the first 79         *)
(* characters are executed as if the line had ended there.                 *)
(***************************************************************************)
C16_LineTruncatedAt79 ==
  /\ [](Len(readBuffer) <= MaxLine /\ pc # "corrupt")
  /\ [](pre.valid => Len(pre.line) <= MaxLine)
  /\ [][ ReadStep =>
           /\ pre'.line = Take(Content(rx), MaxLine)
           /\ AsIfSent(Take(Content(rx), MaxLine) \o <<LF>>)
           /\ (pc' = "loop") => readBuffer' = <<>>
           /\ rx' = <<>> ]_vars

C16_Witness ==
  /\ LineExecuted
  /\ Len(pre.line) = MaxLine
  /\ pre.line[MaxLine] = Ord("n") /\ pre.line[MaxLine - 1] = Ord("o")
  /\ pre.ledState[1] = 0 /\ pre.ledState[3] = 0
  /\ ledState[3] = 1 /\ ledState[1] = 0
  /\ LineOut = <<MSG_MISSING>>

\* the words of a line: what is between its spaces
RECURSIVE Tokens(_)
Tokens(s) ==
  IF s = <<>> THEN <<>>
  ELSE IF s[1] = SP THEN Tokens(Tail(s))
  ELSE <<SubSeq(s, 1, TokEnd(s, 1) - 1)>> \o Tokens(SubSeq(s, TokEnd(s, 1), Len(s)))

\* no word of the line is a verb
NoVerb(line) == \A i \in 1..Len(Tokens(line)) : VerbOf(Tokens(line)[i]) = ""

(***************************************************************************)
(* C17 as it is written: every line that is not empty and holds no verb    *)
(* gives exactly one unknown-command error (not none, not one per word),   *)
(* a line of nothing but spaces included.                                  *)
(***************************************************************************)
C17_NoVerbGivesOneError ==
  (LineExecuted /\ NoVerb(pre.line)) => LineOut = <<MSG_UNKNOWN>>

(***************************************************************************)
(* C17, amended: every line that holds at least one word and no verb gives *)
(* exactly one unknown-command error (not one per word) and changes        *)
(* nothing; a line of nothing but spaces is executed as no command at all: *)
(* it prints nothing, no error either, and changes nothing.                *)
(***************************************************************************)
C17_NoVerbGivesOneErrorUnlessBlank ==
  (LineExecuted /\ NoVerb(pre.line)) =>
    /\ LineOut = IF Tokens(pre.line) = <<>> THEN <<>> ELSE <<MSG_UNKNOWN>>
    /\ calls = <<>>
    /\ Now = Before
    /\ readBuffer = <<>>

C17_Witness ==
  /\ LineExecuted
  /\ pre.line = Join(<<C("x"), C("y"), C("z")>>)
  /\ LineOut = <<MSG_UNKNOWN>>
  /\ ledState[2] = 1

(***************************************************************************)
(* Waiting.                                                                *)
(***************************************************************************)
\* the sketch is in a delay of a flash or of the animation
Blocked == pc \in {"flash1", "flash2", "anim"}

\* the delay the sketch is in is not the last one of the flash or animation
MoreDelays == pc = "flash1" \/ (pc = "anim" /\ animFrame < LastFrame)

\* the step is one of the host, which only adds bytes to the serial input
HostStep ==
  /\ rx = <<>>
  /\ UNCHANGED <<config, useAlternateKeyMap, ledState, readBuffer, currentLedState, eeprom,
                 pc, ret, flashNr, animFrame, delayMs, out, kbd, calls, pre>>

(***************************************************************************)
(* C18: while a flash (started by a command or by a key press) or the      *)
(* animation is in progress, no byte is taken from the serial input, no    *)
(* command is executed, no key press is handled and no keystroke emitted;  *)
(* the operation cannot be cancelled and runs to its end (every one of its *)
(* delays ends); bytes that arrive meanwhile are processed only after it   *)
(* has returned, and after the rest of the line it was called from.        *)
(***************************************************************************)
C18_NothingHandledWhileWaiting ==
  /\ [][ (Blocked /\ ~HostStep) =>
           /\ kbd' = kbd
           /\ MoreDelays =>
                /\ rx' = rx
                /\ UNCHANGED <<calls, pre, out, readBuffer, ret, config, useAlternateKeyMap, eeprom>>
                /\ pc' = IF pc = "flash1" THEN "flash2" ELSE "anim"
           /\ (~MoreDelays /\ ret \in {"key", "setup"}) =>
                /\ rx' = rx
                /\ UNCHANGED <<calls, pre, out, readBuffer, config, useAlternateKeyMap, eeprom>>
                /\ pc' = "loop"
           /\ (~MoreDelays /\ ret = "cmd" /\ rx = <<>>) =>
                /\ pre' = pre
                /\ Len(calls') > Len(calls)
                /\ SubSeq(calls', 1, Len(calls)) = calls
           /\ (~MoreDelays /\ ret = "cmd" /\ rx # <<>>) =>
                /\ rx' = <<>>
                /\ pre'.line = Content(rx)
                /\ Observed(pre') = RunEach(Before, Cmds) ]_vars
  /\ (pc = "flash1") ~> (pc = "flash2")
  /\ (pc = "flash2") ~> (pc # "flash2")
  /\ \A f \in 0..LastFrame :
       (pc = "anim" /\ animFrame = f) ~> (pc # "anim" \/ animFrame # f)

C18_Witness ==
  /\ pc = "flash1"
  /\ ret = "key"
  /\ kbd = <<ToByte(KEY_F13)>>
  /\ rx = Join(<<Short("toggle"), Dec(8)>>) \o <<LF>>
  /\ ledState[1] = 1 /\ ledState[8] = 0

(***************************************************************************)
(* The line after a line.                                                  *)
(***************************************************************************)
\* what the sketch in state m shows of its work when it had printed n messages before
Effect(m, n) ==
  [state |-> Observed(m), readBuffer |-> m.readBuffer, pc |-> m.pc, ret |-> m.ret,
   delayMs |-> m.delayMs, calls |-> m.calls, line |-> m.pre.line, kbd |-> m.kbd,
   said |-> SubSeq(m.out, n + 1, Len(m.out))]

\* the sketch as it is after setup() and nothing else, with the observed state of now
Fresh == Idle(Now)

\* the bytes q would be handled in the state the sketch is in as they are by
\* a sketch that has had no line before
HandledAsFresh(q, ov) ==
  /\ Effect(Finish(Drain(M, q, ov)).m, Len(out)) = Effect(Finish(Drain(Fresh, q, ov)).m, 0)
  /\ Effect(Drain(M, q, ov).m, Len(out)) = Effect(Drain(Fresh, q, ov).m, 0)

\* a press of key k would be handled in the state the sketch is in as it is
\* by a sketch that has had no line before
PressedAsFresh(k) == Effect(KeyPressed(M, k), 0) = Effect(KeyPressed(Fresh, k), 0)

\* the step is the one the sketch d.m with the bytes d.rx unread would make
StepOf(d) ==
  /\ Effect(M', Len(out)) = Effect(d.m, 0)
  /\ rx' = d.rx

\* lines to follow a line: a valid one, one that waits, one of each error kind
NextLines ==
  { Join(<<Short("on"), Dec(3)>>),
    Join(<<Short("flash"), Dec(2), Dec(10)>>),
    Join(<<BadCmd>>),
    Join(<<Short("on")>>),
    Join(<<Short("toggle"), Dec(9)>>),
    Join(<<Short("configtoggle"), Dec(1), C("x")>>) }

\* the error messages of the four kinds: no number, number out of range,
\* not a setting or not a single character, no such command
ErrorKinds ==
  [missing |-> {MSG_MISSING},
   range   |-> {MSG_RANGE(1, KEYCOUNT), MSG_RANGE(1, 2), MSG_RANGE(0, 255), MSG_RANGE(10, 500)},
   format  |-> {MSG_SETTING, MSG_SINGLE},
   unknown |-> {MSG_UNKNOWN}]

\* the line that has just been executed was given up with an error
LineFailed == LineExecuted /\ LineOut # <<>> /\ IsErrorMsg(LineOut[Len(LineOut)])

QuietVerbs ==
  {"usemap", "configtoggle", "setkeycode", "setkeychar", "persist", "load",
   "getled", "showsettings", "help", "version"}

\* one line for each of these commands, and lines on which they fail
QuietLines ==
  { <<Short("usemap"), Dec(2)>>,
    <<Short("usemap"), Dec(1)>>,
    <<Short("configtoggle"), Dec(2), C("e")>>,
    <<Short("setkeycode"), Dec(2), Dec(66)>>,
    <<Short("setkeychar"), Dec(2), C("B")>>,
    <<Short("persist")>>,
    <<Short("load")>>,
    <<Short("getled"), Dec(2)>>,
    <<Short("showsettings")>>,
    <<Short("help")>>,
    <<Short("version")>>,
    <<Short("usemap"), Dec(3)>>,
    <<Short("setkeycode"), Dec(2)>>,
    <<Short("persist"), Short("usemap"), Dec(2), Short("load"), Short("getled"), Dec(1)>> }

\* the line that has just been executed has called none but these commands
QuietLine == LineExecuted /\ \A i \in 1..Len(calls) : calls[i].name \in QuietVerbs

(***************************************************************************)
(* C20: usemap changes nothing but the selector of the active map, and     *)
(* usemap, configtoggle, setkeycode, setkeychar, persist, load, getled,    *)
(* showsettings, help and version leave the LEDs as they are: every LED is *)
(* the same before and after a line of these commands, whether they        *)
(* succeed or fail.                                                        *)
(***************************************************************************)
C20_QuietCommandsKeepLeds ==
  /\ QuietLine => ledState = pre.ledState
  /\ (LineExecuted /\ Called_Names = <<"usemap">>) =>
       /\ config = pre.config /\ eeprom = pre.eeprom /\ ledState = pre.ledState
       /\ \A n \in {1, 2} :
            pre.line \in {Join(<<Short("usemap"), Dec(n)>>), Join(<<Long("usemap"), Dec(n)>>)}
              => Now = [Before EXCEPT !.useAlternateKeyMap = (n = 2)]
  /\ LineExecuted =>
       /\ \A ws \in QuietLines : After(ws).ledState = ledState
       /\ \A n \in {1, 2} :
            After(<<Long("usemap"), Dec(n)>>) = [Now EXCEPT !.useAlternateKeyMap = (n = 2)]
       /\ After(<<Long("usemap"), Dec(3)>>) = Now

C20_Witness ==
  /\ LineExecuted
  /\ Called_Names = <<"usemap">>
  /\ calls[1].rc = 0
  /\ ~pre.useAlternateKeyMap /\ useAlternateKeyMap
  /\ pre.ledState[1] = 1 /\ pre.ledState[2] = 1 /\ pre.ledState[3] = 0
  /\ ledState = pre.ledState

\* the sketch driven by the lines that give a key its code
SpecCode == Init /\ [][NextCode]_vars

(***************************************************************************)
(* Key codes.                                                              *)
(***************************************************************************)
\* the sketch after executeSerialCommands has run the line of the words ws,
\* had it come next in the state the sketch is in
Would(ws) ==
  Finish([m |-> executeSerialCommands([Idle(Now) EXCEPT !.readBuffer = Join(ws)], "sat"),
          rx |-> <<>>]).m

\* the bytes the host can send as a word of one character
SingleChars == (1..255) \ {SP, CR, LF}

\* the entry of key k in the key map the selector designates in the sketch m
ActiveEntry(m, k) == IF m.useAlternateKeyMap THEN m.config.keyMap2[k] ELSE m.config.keyMap1[k]

\* setkeycode k code stores the code as a char, and the sketch m it leaves
\* has nothing else changed
Stores(m, k, code) ==
  /\ ActiveEntry(m, k) = (IF code < 128 THEN code ELSE code - 256)
  /\ Observed(m) = WithEntry(Now, ActiveKeyMap(Now), k, ActiveEntry(m, k))

\* showsettings, as a second command of the line, has printed the code for key k
Shows(m, k, code) ==
  /\ Len(m.out) = KEYCOUNT + 1
  /\ m.out[k + 1].args[1] = k
  /\ m.out[k + 1].args[4] = code

\* a press of key k hands the code to Keyboard.write
Emits(m, k, code) == KeyPressed(m, k).kbd = <<code>>

(***************************************************************************)
(* C21: setkeychar k c and setkeycode k n, n the code of c, leave the      *)
(* active key map in the same state, for every character c that can be a   *)
(* word of its own; and for every code in 0..255 the value setkeycode      *)
(* stores is the value showsettings prints afterwards and the value a      *)
(* press of key k hands to Keyboard.write: the codes 128..255, stored as   *)
(* negative chars, come back unchanged.                                    *)
(***************************************************************************)
C21_CharAndCodeAgree ==
  /\ (LineExecuted /\ Called_Names = <<"usemap">> /\ config = ConfigData) =>
       \A k \in {1, KEYCOUNT} :
         /\ \A c \in SingleChars :
              /\ Would(<<Short("setkeychar"), Dec(k), <<ToChar(c)>>>>).calls = <<[name |-> "setkeychar", rc |-> 0]>>
              /\ Observed(Would(<<Short("setkeychar"), Dec(k), <<ToChar(c)>>>>))
                   = Observed(Would(<<Short("setkeycode"), Dec(k), Dec(c)>>))
         /\ \A code \in 0..255 :
              /\ Stores(Would(<<Short("setkeycode"), Dec(k), Dec(code)>>), k, code)
              /\ Shows(Would(<<Short("setkeycode"), Dec(k), Dec(code), Short("showsettings")>>), k, code)
              /\ Emits(Would(<<Short("setkeycode"), Dec(k), Dec(code)>>), k, code)
  /\ (LineExecuted /\ calls = <<[name |-> "showsettings", rc |-> 0]>>) =>
       /\ LineOut[2].args[4] \in 0..255
       /\ LineOut[2].args[4] = ToByte(ActiveCode(1))
       /\ Emits(M, 1, LineOut[2].args[4])
  /\ (LineExecuted /\ calls = <<[name |-> "setkeycode", rc |-> 0]>>) =>
       \A code \in CodeSample :
         pre.line = Join(<<Short("setkeycode"), Dec(1), Dec(code)>>) =>
           /\ ToByte(ActiveCode(1)) = code
           /\ After(<<Short("setkeychar"), Dec(1), <<ActiveCode(1)>>>>) = Now
  /\ (LineExecuted /\ calls = <<[name |-> "setkeychar", rc |-> 0]>>) =>
       /\ ActiveCode(1) = pre.line[Len(pre.line)]
       /\ After(<<Short("setkeycode"), Dec(1), Dec(ToByte(ActiveCode(1)))>>) = Now

C21_Witness ==
  /\ LineExecuted
  /\ calls = <<[name |-> "showsettings", rc |-> 0]>>
  /\ useAlternateKeyMap
  /\ config.keyMap2[1] = 200 - 256
  /\ config.keyMap1[1] = 255 - 256
  /\ LineOut[2].args[4] = 200

\* the sketch driven by lines with NUL bytes
SpecNul == Init /\ [][NextNul]_vars

(***************************************************************************)
(* The write position of the input buffer.                                 *)
(***************************************************************************)
\* the bytes stored in readBuffer since clearReadBuffer last ran
Stored == Len(readBuffer)

(***************************************************************************)
(* C22: whatever bytes are received, NUL among them, the write position of *)
(* the input buffer never goes past the last content slot of the 80-byte   *)
(* array: a byte is stored only while fewer than 79 bytes have been stored *)
(* since the buffer was last cleared, so that never more than 79 are, and  *)
(* the NUL that follows them is never written outside the array.           *)
(***************************************************************************)
C22_WriteStaysInBuffer == Stored <= BufSize - 1 /\ pc # "corrupt"

\* the sketch driven by pieces of lines and line ends of every kind
SpecPart == Init /\ [][NextPart]_vars

(***************************************************************************)
(* Line ends.                                                              *)
(***************************************************************************)
\* the characters s cut at its line ends: the contents that are not empty
\* and have a line end after them, in order, and what follows the last line end
RECURSIVE Split(_, _, _)
Split(s, cur, acc) ==
  IF s = <<>> THEN [lines |-> acc, rest |-> cur]
  ELSE IF Head(s) \in {CR, LF}
       THEN Split(Tail(s), <<>>, IF cur = <<>> THEN acc ELSE Append(acc, cur))
       ELSE Split(Tail(s), Append(cur, Head(s)), acc)

\* the sketch m after each of the lines ls has been sent to it on its own
RECURSIVE RunLines(_, _)
RunLines(m, ls) ==
  IF ls = <<>> THEN m
  ELSE RunLines(Finish(Drain(m, ls[1] \o <<LF>>, "sat")).m, Tail(ls))

\* the step has executed the lines ls, each once and in order, and nothing
\* else, and keeps the characters rest for later
Executed(ls, rest) ==
  /\ Observed(M') = Observed(RunLines(Fresh, ls))
  /\ SubSeq(out', Len(out) + 1, Len(out')) = RunLines(Fresh, ls).out
  /\ readBuffer' = rest
  /\ ls = <<>> => UNCHANGED <<calls, pre, out>>
  /\ ls # <<>> => pre'.line = ls[Len(ls)] /\ calls' = RunLines(Fresh, ls).calls

\* the step has executed what is complete of the characters s
ExecutedOnce(s) == Executed(Split(s, <<>>, <<>>).lines, Split(s, <<>>, <<>>).rest)

(***************************************************************************)
(* C23: a line is executed exactly once for every content that is not      *)
(* empty and is ended by a line end.  No command runs before a carriage    *)
(* return or a line feed arrives, the characters received so far are kept; *)
(* a line ended by CR LF or by LF CR is executed once, not twice; a line   *)
(* end received while the buffer is empty executes and prints nothing.     *)
(***************************************************************************)
C23_LineExecutedOncePerLineEnd ==
  /\ [][ (ReadStep /\ pc' = "loop") => ExecutedOnce(readBuffer \o rx) ]_vars
  /\ [][ (ReadStep /\ ~HasEnd(rx)) =>
           /\ readBuffer' = readBuffer \o rx
           /\ UNCHANGED <<config, useAlternateKeyMap, ledState, eeprom, out, calls, pre, pc>> ]_vars
  /\ [][ (ReadStep /\ readBuffer = <<>> /\ \A i \in 1..Len(rx) : rx[i] \in {CR, LF}) =>
           UNCHANGED <<config, useAlternateKeyMap, ledState, eeprom, out, calls, pre, pc, readBuffer>> ]_vars

C23_Witness ==
  /\ LineExecuted
  /\ pre.line = Join(<<Short("toggle"), Dec(1), Short("getled"), Dec(1)>>)
  /\ pre.ledState[1] = 0 /\ ledState[1] = 1
  /\ out = <<MsgArgs("led state", <<1>>)>>
  /\ Called_Names = <<"toggle", "getled">>
  /\ rx = <<>> /\ readBuffer = <<>>

====
